---- MODULE Spec2Model ----
(***************************************************************************)
(* A model of the tracing compiler passes of tracy-mc-traceface:           *)
(*   - DiamondPruningPass   (src/diamond_pruning_pass.py)                  *)
(*   - InlineAllCallsPass   (src/inlining.py)                              *)
(*   - TracingInjectionPass, _log_trace_tuple, Trace.to_ir (src/tracer.py) *)
(* Each component has its own state variables and its own specification;   *)
(* a specification leaves the other components' variables untouched.       *)
(***************************************************************************)
EXTENDS Integers, Sequences, FiniteSets, TLC

VARIABLES
    \* ---- DiamondPruningPass ----
    blocks,      \* func_ir.blocks: label -> block body (sequence of statements)
    blocks0,     \* the CFG the first run was given
    prevBlocks,  \* the CFG the latest run was given
    rules,       \* label -> which case (1..4) of run_pass rewrote it in the latest run, 0 if none
    changed,     \* the local `changed` of the latest run
    raised,      \* the latest run ended by raising (block.terminator of an empty body)
    runs,        \* number of completed calls of run_pass
    pass_ret,    \* what the latest run returned, NoReturn if it raised or none has run
    dce_invoked, \* whether the latest run called dead_code_elimination
    \* ---- InlineAllCallsPass ----
    iblocks,     \* func_ir.blocks of the function being flattened
    work_list,   \* the work list: labels of the blocks still to scan
    nextLabel,   \* the next fresh block label
    callees,     \* the user-defined functions: index -> their IR
    ipc,         \* "loop": in the while loop; "done": run_pass has returned
    iret,        \* the value run_pass returned
    inlined,     \* number of call sites inlined so far
    \* ---- TracingInjectionPass and the traced call ----
    func_ir,         \* func_ir.blocks of the traced function, instrumented in place
    orig_ir,         \* the blocks TracingInjectionPass was given
    tphase,          \* "compile", "ready" (no call in progress) or "running"
    mach,            \* the running call: position, variables, executed statements, result
    CURRENT_TRACE,   \* _CURRENT_TRACE, the shared list of TraceEvents
    TRACEABLE_VARS,  \* _TRACEABLE_VARS
    wrapper_trace,   \* wrapper.trace.events
    wrapper_res,     \* what the latest call of wrapper returned
    ncalls,          \* number of calls of wrapper that have returned
    unmarked_run,    \* the call in progress as it runs with no parameter marked
    \* ---- Trace.to_ir ----
    events,          \* Trace.events
    ir_result,       \* what to_ir computed: the emitted nodes, their links, the result
    irpc,            \* "call": to_ir not yet called; "done": it has returned or raised;
                     \* "printed": pretty_print has returned
    rendered,        \* the lines of the text pretty_print returned
    \* ---- calls of the wrappers that trace() returns ----
    lists,           \* the list objects that exist: identity -> contents
    current_ref,     \* the list that the global _CURRENT_TRACE names
    trace_attr,      \* wrapper.trace of each wrapper: the Trace object, or NoTrace
    frames,          \* thread -> its call of a wrapper: position, events still to log
    obtained,        \* the Traces callers read from wrapper.trace after their call
    appended,        \* invocation -> the events it appended, in order
    since_reset,     \* the events appended by anyone since the latest reset
    overlaps,        \* pairs of invocations that were in progress together
    started,         \* number of invocations started
    overlapping,     \* whether callers start a call while another is in progress
    outcome,         \* invocation -> its wrapper and how its call ended so far
    \* ---- TraceCompiler: the pass pipeline ----
    pm_passes,       \* pm.passes, the ordered list of passes
    pm_state,        \* "new", "finalized", or "finished" (every pass has run)
    pm_next,         \* position in pm_passes of the next pass to run
    pm_running,      \* position of the pass that is running, 0 if none
    pass_log         \* the starts and ends of the passes, in the order they happened

dpVars == <<blocks, blocks0, prevBlocks, rules, changed, raised, runs, pass_ret, dce_invoked>>
inVars == <<iblocks, work_list, nextLabel, callees, ipc, iret, inlined>>

trVars == <<func_ir, orig_ir, tphase, mach, CURRENT_TRACE, TRACEABLE_VARS,
            wrapper_trace, wrapper_res, ncalls, unmarked_run>>

irVars == <<events, ir_result, irpc, rendered>>

wrVars == <<lists, current_ref, trace_attr, frames, obtained, appended, since_reset,
            overlaps, started, overlapping, outcome>>

pmVars == <<pm_passes, pm_state, pm_next, pm_running, pass_log>>

vars == <<dpVars, inVars, trVars, irVars, wrVars, pmVars>>

\* The state of a component that a specification does not exercise.
DiamondIdle ==
    /\ blocks = <<>> /\ blocks0 = <<>> /\ prevBlocks = <<>> /\ rules = <<>>
    /\ changed = FALSE /\ raised = FALSE /\ runs = 0
    /\ pass_ret = <<>> /\ dce_invoked = FALSE

InlineIdle ==
    /\ iblocks = <<>> /\ work_list = <<>> /\ nextLabel = 0 /\ callees = <<>>
    /\ ipc = "idle" /\ iret = FALSE /\ inlined = 0

TraceIdle ==
    /\ func_ir = <<>> /\ orig_ir = <<>> /\ tphase = "idle" /\ mach = <<>>
    /\ CURRENT_TRACE = <<>> /\ TRACEABLE_VARS = {}
    /\ wrapper_trace = <<>> /\ wrapper_res = <<>> /\ ncalls = 0
    /\ unmarked_run = <<>>

ToIrIdle == events = <<>> /\ ir_result = <<>> /\ irpc = "idle" /\ rendered = <<>>

CallsIdle ==
    /\ lists = <<>> /\ current_ref = 0 /\ trace_attr = <<>> /\ frames = <<>>
    /\ obtained = {} /\ appended = <<>> /\ since_reset = <<>> /\ overlaps = {}
    /\ started = 0 /\ overlapping = FALSE /\ outcome = <<>>

PipelineIdle ==
    /\ pm_passes = <<>> /\ pm_state = "idle" /\ pm_next = 0 /\ pm_running = 0
    /\ pass_log = <<>>

(***************************************************************************)
(* Bounds of the model.                                                    *)
(***************************************************************************)
MaxLabel == 3
MaxRuns == 2
NumCallees == 2
MaxCalls == 2
MaxField == 2
MaxEvents == 3

(***************************************************************************)
(* numba IR: statements and expressions (the forms the passes inspect).    *)
(***************************************************************************)
Jump(t) == [k |-> "jump", target |-> t]
Branch(c, t, f) == [k |-> "branch", cond |-> c, truebr |-> t, falsebr |-> f]
Return(v) == [k |-> "return", value |-> v]
Assign(tg, v) == [k |-> "assign", target |-> tg, value |-> v]

Const(l) == [e |-> "const", value |-> l]
Var(n) == [e |-> "var", name |-> n]
Cast(v) == [e |-> "cast", value |-> v]

\* Python literals. A float carries its value in ten-thousandths, the others
\* carry it as it is; bool True is 1 and False is 0, as in Python.
LitNone == [ty |-> "none", n |-> 0]
LitInt(i) == [ty |-> "int", n |-> i]
LitBool(b) == [ty |-> "bool", n |-> IF b THEN 1 ELSE 0]
LitFloat(tt) == [ty |-> "float", n |-> tt]

\* Python's == on the constants of ir.Const: numbers compare by value across
\* int, bool and float; None equals only None.
NumVal(l) == IF l.ty = "float" THEN l.n ELSE l.n * 10000
PyEq(a, b) ==
    IF a.ty = "none" \/ b.ty = "none" THEN a.ty = b.ty
    ELSE NumVal(a) = NumVal(b)

\* Python's None where a label is expected.
NoLabel == -1

IsBranch(s) == s.k = "branch"
IsJump(s) == s.k = "jump"
IsReturn(s) == s.k = "return"
IsAssign(s) == s.k = "assign"
IsVar(x) == x.e = "var"
IsConst(x) == x.e = "const"

Last(body) == body[Len(body)]

(***************************************************************************)
(* DiamondPruningPass._get_jump_target                                     *)
(***************************************************************************)
GetJumpTarget(bl, label) ==
    IF label \notin DOMAIN bl THEN NoLabel
    ELSE IF Len(bl[label]) = 1 /\ IsJump(bl[label][1]) THEN bl[label][1].target
    ELSE NoLabel

(***************************************************************************)
(* DiamondPruningPass._get_return_const                                    *)
(***************************************************************************)
\* local_defs: the value of the last Assign of the block to `name`.
DefIndexes(body, name) ==
    {i \in 1..Len(body) : IsAssign(body[i]) /\ body[i].target = name}
HasLocalDef(body, name) == DefIndexes(body, name) # {}
LocalDef(body, name) ==
    body[CHOOSE i \in DefIndexes(body, name) : \A j \in DefIndexes(body, name) : j <= i].value

\* The while loop of lines 99-121; LitNone is Python's None.
RECURSIVE ChaseConst(_, _, _)
ChaseConst(body, var, visited) ==
    IF IsVar(var) THEN
        IF var.name \in visited THEN LitNone
        ELSE IF ~HasLocalDef(body, var.name) THEN LitNone
        ELSE LET val == LocalDef(body, var.name) IN
             IF IsConst(val) THEN val.value
             ELSE IF val.e = "cast" THEN ChaseConst(body, val.value, visited \cup {var.name})
             ELSE IF IsVar(val) THEN ChaseConst(body, val, visited \cup {var.name})
             ELSE LitNone
    ELSE IF IsConst(var) THEN var.value
    ELSE LitNone

GetReturnConst(bl, label) ==
    IF label \notin DOMAIN bl THEN LitNone
    ELSE IF Len(bl[label]) = 0 THEN LitNone
    ELSE IF ~IsReturn(Last(bl[label])) THEN LitNone
    ELSE ChaseConst(bl[label], Last(bl[label]).value, {})

(***************************************************************************)
(* DiamondPruningPass.run_pass: the scan of lines 23-64.                   *)
(***************************************************************************)
\* Which case rewrites the Branch ending block `label` of bl: 1..4, 0 if none.
CaseOf(bl, label) ==
    LET term == Last(bl[label])
        true_label == term.truebr
        false_label == term.falsebr
        true_target == GetJumpTarget(bl, true_label)
        false_target == GetJumpTarget(bl, false_label)
        true_ret == GetReturnConst(bl, true_label)
        false_ret == GetReturnConst(bl, false_label)
    IN  IF true_target # NoLabel /\ false_target # NoLabel /\ true_target = false_target THEN 1
        ELSE IF true_target # NoLabel /\ true_target = false_label THEN 2
        ELSE IF false_target # NoLabel /\ false_target = true_label THEN 3
        ELSE IF true_ret # LitNone /\ false_ret # LitNone /\ PyEq(true_ret, false_ret) THEN 4
        ELSE 0

\* A slip in case 1: the Jump goes to the true label, not to the common target.
RewriteTargetTrueLabel(bl, label, c) ==
    LET term == Last(bl[label]) IN
    IF c = 2 THEN term.falsebr ELSE term.truebr

\* A slip: the detour rule for the true side jumps to the true label.
RewriteTargetDetourViaTrue(bl, label, c) ==
    LET term == Last(bl[label]) IN
    IF c = 1 THEN GetJumpTarget(bl, term.truebr) ELSE term.truebr

\* A slip in case 4: the Jump goes to true_target, which is None there.
RewriteTargetCase4ViaTarget(bl, label, c) ==
    LET term == Last(bl[label]) IN
    IF c = 1 \/ c = 4 THEN GetJumpTarget(bl, term.truebr)
    ELSE IF c = 2 THEN term.falsebr
    ELSE term.truebr

\* The Jump that case c writes into block.body[-1].
RewriteTarget(bl, label, c) ==
    LET term == Last(bl[label]) IN
    IF c = 1 THEN GetJumpTarget(bl, term.truebr)
    ELSE IF c = 2 THEN term.falsebr
    ELSE term.truebr

SetLast(body, s) == [body EXCEPT ![Len(body)] = s]

\* The order of list(blocks.items()): numba keeps the blocks by ascending label.
RECURSIVE SeqOfSet(_)
SeqOfSet(S) ==
    IF S = {} THEN <<>>
    ELSE LET m == CHOOSE x \in S : \A y \in S : x <= y
         IN <<m>> \o SeqOfSet(S \ {m})

\* One iteration per label; a rewrite is visible to the later iterations
\* because the block objects are mutated in place.
RECURSIVE Scan(_, _, _)
Scan(st, order, i) ==
    IF i > Len(order) \/ st.raised THEN st
    ELSE LET label == order[i]
             body == st.blocks[label]
         IN IF Len(body) = 0 THEN [st EXCEPT !.raised = TRUE]
            ELSE IF ~IsBranch(Last(body)) THEN Scan(st, order, i + 1)
            ELSE LET c == CaseOf(st.blocks, label) IN
                 IF c = 0 THEN Scan(st, order, i + 1)
                 ELSE Scan([st EXCEPT
                              !.blocks[label] =
                                  SetLast(body, Jump(RewriteTarget(st.blocks, label, c))),
                              !.rules[label] = c,
                              !.changed = TRUE],
                           order, i + 1)

ScanBlocks(bl) ==
    Scan([blocks |-> bl, rules |-> [l \in DOMAIN bl |-> 0],
          changed |-> FALSE, raised |-> FALSE],
         SeqOfSet(DOMAIN bl), 1)

(***************************************************************************)
(* ir_utils.dead_code_elimination, the host compiler's utility: it drops   *)
(* the blocks that cannot be reached from the entry block and the          *)
(* assignments whose target nothing reads.                                 *)
(***************************************************************************)
EntryLabel(bl) == CHOOSE l \in DOMAIN bl : \A m \in DOMAIN bl : l <= m

Successors(bl, l) ==
    IF Len(bl[l]) = 0 THEN {}
    ELSE LET term == Last(bl[l]) IN
         (IF IsJump(term) THEN {term.target}
          ELSE IF IsBranch(term) THEN {term.truebr, term.falsebr}
          ELSE {}) \cap DOMAIN bl

RECURSIVE ReachFrom(_, _)
ReachFrom(bl, seen) ==
    LET more == UNION {Successors(bl, l) : l \in seen} \ seen
    IN IF more = {} THEN seen ELSE ReachFrom(bl, seen \cup more)

Reachable(bl) == IF DOMAIN bl = {} THEN {} ELSE ReachFrom(bl, {EntryLabel(bl)})

\* The names an expression or a statement reads.
ExprUses(x) ==
    IF x.e = "var" THEN {x.name}
    ELSE IF x.e = "cast" THEN (IF x.value.e = "var" THEN {x.value.name} ELSE {})
    ELSE IF x.e = "call" THEN {x.args[j].name : j \in 1..Len(x.args)}
    ELSE {}
StmtUses(s) ==
    IF IsAssign(s) THEN ExprUses(s.value)
    ELSE IF IsReturn(s) THEN ExprUses(s.value)
    ELSE IF IsBranch(s) THEN {s.cond}
    ELSE {}
BlockUses(body) == UNION {StmtUses(body[i]) : i \in 1..Len(body)}
AllUses(bl) == UNION {BlockUses(bl[l]) : l \in DOMAIN bl}

\* An assignment is dead when nothing reads its target and it is not a call.
IsDeadAssign(s, used) == IsAssign(s) /\ s.target \notin used /\ s.value.e # "call"

FilterSeq(body, used) == SelectSeq(body, LAMBDA s : ~IsDeadAssign(s, used))

\* Repeated to a fixed point: removing an assignment can make another dead.
RECURSIVE RemoveDead(_)
RemoveDead(bl) ==
    CHOOSE r \in {IF nb = bl THEN bl ELSE RemoveDead(nb) :
                    nb \in {[l \in DOMAIN bl |-> FilterSeq(bl[l], AllUses(bl))]}} : TRUE

DeadCodeElimination(bl) ==
    CHOOSE r \in {RemoveDead(live) : live \in {[l \in Reachable(bl) |-> bl[l]]}} : TRUE

(***************************************************************************)
(* DiamondPruningPass.run_pass as a whole: the scan, then                  *)
(* dead_code_elimination if anything changed.                              *)
(***************************************************************************)
RunPassResult(bl) ==
    LET st == ScanBlocks(bl) IN
    IF st.raised THEN st
    ELSE IF st.changed THEN [st EXCEPT !.blocks = DeadCodeElimination(st.blocks)]
    ELSE st

\* No value: the pass has not run, or it raised.
NoReturn == [ty |-> "noreturn", n |-> 0]

\* Line 69: return True.
ReturnedFlag(st) == IF st.raised THEN NoReturn ELSE LitBool(TRUE)

\* Lines 66-67: dead_code_elimination is called when changed is set.
DceInvoked(st) == ~st.raised /\ st.changed

RunPass ==
    /\ runs < MaxRuns
    /\ ~raised
    /\ LET st == RunPassResult(blocks) IN
         /\ blocks' = st.blocks
         /\ rules' = st.rules
         /\ changed' = st.changed
         /\ raised' = st.raised
         /\ pass_ret' = ReturnedFlag(st)
         /\ dce_invoked' = DceInvoked(st)
    /\ prevBlocks' = blocks
    /\ runs' = runs + 1
    /\ UNCHANGED <<blocks0, inVars, trVars, irVars, wrVars, pmVars>>

(***************************************************************************)
(* The meaning of a CFG: the literal the function returns when the branch  *)
(* predicate has the value pv. Used to compare a CFG before and after.     *)
(***************************************************************************)
Undef == [ty |-> "undef", n |-> 0]
VarNames == {"r", "c", "a"}
PredName == "p"

EvalExpr(x, env) ==
    IF x.e = "const" THEN x.value
    ELSE IF x.e = "var" THEN (IF x.name \in VarNames THEN env[x.name] ELSE Undef)
    ELSE IF x.e = "cast" THEN
        (IF x.value.e = "const" THEN x.value.value
         ELSE IF x.value.e = "var" /\ x.value.name \in VarNames THEN env[x.value.name]
         ELSE Undef)
    ELSE Undef

RECURSIVE ExecFrom(_, _, _, _, _, _)
ExecFrom(bl, pv, l, i, env, fuel) ==
    IF fuel = 0 \/ l \notin DOMAIN bl \/ i > Len(bl[l]) THEN Undef
    ELSE LET s == bl[l][i] IN
         IF IsAssign(s) THEN
             ExecFrom(bl, pv, l, i + 1, [env EXCEPT ![s.target] = EvalExpr(s.value, env)], fuel - 1)
         ELSE IF IsJump(s) THEN ExecFrom(bl, pv, s.target, 1, env, fuel - 1)
         ELSE IF IsBranch(s) THEN
             ExecFrom(bl, pv, IF pv THEN s.truebr ELSE s.falsebr, 1, env, fuel - 1)
         ELSE EvalExpr(s.value, env)

ReturnValue(bl, pv) ==
    IF DOMAIN bl = {} THEN Undef
    ELSE ExecFrom(bl, pv, EntryLabel(bl), 1, [v \in VarNames |-> Undef], 4 * (MaxLabel + 2))

(***************************************************************************)
(* The CFGs the pass is given: every block is one of a few bodies, its     *)
(* targets are later labels (the pass handles acyclic diamonds only).      *)
(***************************************************************************)
Labels == 0..MaxLabel
Lits == {LitInt(0), LitBool(FALSE), LitInt(1), LitNone}

Targets(l) == {t \in Labels : t > l}

ReturnBodies ==
    {<<Assign("r", Const(lit)), Return(Var("r"))>> : lit \in Lits}
    \cup {<<Assign("r", Const(LitInt(0))), Assign("c", Cast(Var("r"))), Return(Var("c"))>>}

JumpBodies(l) ==
    {<<Jump(t)>> : t \in Targets(l)}
    \cup {<<Assign("a", Const(LitInt(2))), Jump(t)>> : t \in Targets(l)}

\* A two-way branch has two distinct targets.
BranchTargets(l) == {<<t, f>> \in Targets(l) \X Targets(l) : t # f}
BranchBodies(l) ==
    {<<Branch(PredName, tf[1], tf[2])>> : tf \in BranchTargets(l)}
    \cup {<<Assign("a", Const(LitFloat(5000))), Branch(PredName, tf[1], tf[2])>> :
             tf \in BranchTargets(l)}

BodiesAt(l) == ReturnBodies \cup JumpBodies(l) \cup BranchBodies(l)

RECURSIVE SeqCFGs(_)
SeqCFGs(n) ==
    IF n = 0 THEN {<<>>}
    ELSE {Append(f, b) : <<f, b>> \in SeqCFGs(n - 1) \X BodiesAt(n - 1)}

CFGs == {[l \in Labels |-> f[l + 1]] : f \in SeqCFGs(MaxLabel + 1)}

InitDiamond ==
    /\ InlineIdle
    /\ TraceIdle
    /\ ToIrIdle
    /\ CallsIdle
    /\ PipelineIdle
    /\ blocks \in CFGs
    /\ blocks0 = blocks
    /\ prevBlocks = blocks
    /\ rules = [l \in Labels |-> 0]
    /\ changed = FALSE
    /\ raised = FALSE
    /\ runs = 0
    /\ pass_ret = NoReturn
    /\ dce_invoked = FALSE

NextDiamond == RunPass

SpecDiamond == InitDiamond /\ [][NextDiamond]_vars

(***************************************************************************)
(* Claims about DiamondPruningPass, checked under SpecDiamond.             *)
(***************************************************************************)
NoBranchLeft(bl) == \A l \in DOMAIN bl : Len(bl[l]) > 0 => ~IsBranch(Last(bl[l]))

\* C1: diamond simplification is idempotent: a second run of run_pass on the
\* output of a first run rewrites no terminator and leaves the CFG as the
\* first run left it.
C1_SecondRunChangesNothing ==
    runs = 2 => (blocks = prevBlocks /\ \A l \in DOMAIN rules : rules[l] = 0)

\* C2: when a Branch is collapsed because both outcome blocks return literals
\* the pass treats as equal (case 4), the function returns the same value
\* before and after the rewrite, for both values of the branch condition.
C2_EqualConstCollapseKeepsReturnValue ==
    (runs = 1 /\ \E l \in DOMAIN rules : rules[l] = 4)
        => \A pv \in BOOLEAN : ReturnValue(blocks, pv) = ReturnValue(blocks0, pv)

\* C3: a block ending in Branch(cond, T, F) whose targets T and F are each a
\* single Jump to the same block M ends in Jump(M) after the pass, and T and
\* F, which only that branch led to, are gone after dead-code elimination.
IsSameTargetDiamond(bl, l) ==
    /\ Len(bl[l]) > 0
    /\ IsBranch(Last(bl[l]))
    /\ LET t == Last(bl[l]).truebr
           f == Last(bl[l]).falsebr
       IN /\ t \in DOMAIN bl /\ f \in DOMAIN bl
          /\ Len(bl[t]) = 1 /\ IsJump(bl[t][1])
          /\ Len(bl[f]) = 1 /\ IsJump(bl[f][1])
          /\ bl[t][1].target = bl[f][1].target

Predecessors(bl, t) == {l \in DOMAIN bl : t \in Successors(bl, l)}

C3_SameTargetDiamondCollapsed ==
    runs = 1 =>
        \A l \in DOMAIN blocks0 :
            IsSameTargetDiamond(blocks0, l) =>
                LET t == Last(blocks0[l]).truebr
                    f == Last(blocks0[l]).falsebr
                    m == blocks0[t][1].target
                IN /\ rules[l] = 1
                   /\ l \in DOMAIN blocks => Last(blocks[l]) = Jump(m)
                   /\ \A x \in {t, f} :
                        (Predecessors(blocks0, x) = {l} /\ x # EntryLabel(blocks0))
                            => x \notin DOMAIN blocks

C3_Witness ==
    /\ runs = 1
    /\ \E l \in DOMAIN blocks0 :
        /\ IsSameTargetDiamond(blocks0, l)
        /\ Last(blocks0[l]).truebr # Last(blocks0[l]).falsebr
        /\ l \in DOMAIN blocks
        /\ Last(blocks[l]) = Jump(blocks0[Last(blocks0[l]).truebr][1].target)
        /\ Last(blocks0[l]).truebr \notin DOMAIN blocks
        /\ Last(blocks0[l]).falsebr \notin DOMAIN blocks

\* C4: a Branch whose two arms hold only assignments to variables nothing
\* reads and then jump to the same merge block is gone after one run of the
\* pass followed by one dead-code elimination.
IsDeadArm(body) ==
    /\ Len(body) >= 2
    /\ IsJump(Last(body))
    /\ \A i \in 1..(Len(body) - 1) : IsAssign(body[i])

IsUnusedArmsDiamond(bl) ==
    /\ Cardinality({l \in DOMAIN bl : Len(bl[l]) > 0 /\ IsBranch(Last(bl[l]))}) = 1
    /\ \E l \in DOMAIN bl :
        /\ Len(bl[l]) > 0 /\ IsBranch(Last(bl[l]))
        /\ LET t == Last(bl[l]).truebr
               f == Last(bl[l]).falsebr
           IN /\ t # f
              /\ IsDeadArm(bl[t]) /\ IsDeadArm(bl[f])
              /\ Last(bl[t]).target = Last(bl[f]).target
              /\ \A x \in {t, f} : \A i \in 1..(Len(bl[x]) - 1) :
                    bl[x][i].target \notin AllUses(bl)

C4_UnusedArmsBranchRemoved ==
    (runs = 1 /\ IsUnusedArmsDiamond(blocks0))
        => NoBranchLeft(DeadCodeElimination(blocks))

(***************************************************************************)
(* InlineAllCallsPass (src/inlining.py).                                   *)
(* Names are pairs <<base, instance>>: instance 0 is the caller's own      *)
(* scope, an inlined body gets the label of its first block as instance.   *)
(***************************************************************************)
\* The Python objects a callee expression can evaluate to.
PyFunction(fn) == [kind |-> "function", fn |-> fn]      \* has __code__
Dispatcher(fn) == [kind |-> "dispatcher", fn |-> fn]    \* numba.njit(f): has py_func
BuiltinType == [kind |-> "type", fn |-> 0]              \* bool, int, float, ...
CodeObject(fn) == [kind |-> "code", fn |-> fn]          \* the code of a closure
PyNone == [kind |-> "none", fn |-> 0]

\* What ir_utils.get_definition returns for expr.func.
Global(obj) == [def |-> "global", base |-> "", obj |-> obj]
FreeVar(obj) == [def |-> "freevar", base |-> "", obj |-> obj]
\* getattr(<base>, attr): base is how the object is defined, obj is
\* getattr(object, attr, None).
Getattr(base, obj) == [def |-> "getattr", base |-> base, obj |-> obj]
MakeFunction(fn) == [def |-> "make_function", base |-> "", obj |-> CodeObject(fn)]

Call(func, args) == [e |-> "call", func |-> func, args |-> args]
Other == [e |-> "other"]
Arg == [e |-> "arg"]

IsCall(s) == IsAssign(s) /\ s.value.e = "call"

\* impl, lines 34-58: the object the callee resolves to.
FuncObj(func_def) ==
    LET o == IF func_def.def \in {"global", "freevar"} THEN func_def.obj
             ELSE IF func_def.def = "getattr" /\ func_def.base \in {"global", "freevar"}
                  THEN func_def.obj
             ELSE PyNone
    IN IF o.kind = "dispatcher" THEN PyFunction(o.fn) ELSE o

\* A slip: the getattr form (lines 41-54) is not resolved.
ImplCalleeNoGetattr(func_def) ==
    IF func_def.def \in {"global", "freevar"}
       /\ func_def.obj.kind \in {"function", "dispatcher"} THEN func_def.obj.fn
    ELSE IF func_def.def = "make_function" THEN func_def.obj.fn
    ELSE 0

\* impl, lines 60-90: the function to inline, 0 when impl returns False.
ImplCallee(func_def) ==
    IF FuncObj(func_def).kind = "function" THEN FuncObj(func_def).fn
    ELSE IF func_def.def = "make_function" THEN func_def.obj.fn
    ELSE 0

\* The for loop of lines 28-93: the first statement that impl inlines, 0 if none.
RECURSIVE FirstInlinable(_, _)
FirstInlinable(body, i) ==
    IF i > Len(body) THEN 0
    ELSE IF IsCall(body[i]) /\ ImplCallee(body[i].value.func) # 0 THEN i
    ELSE FirstInlinable(body, i + 1)

(***************************************************************************)
(* numba's inline_closure_call, as the spec describes the splice: split    *)
(* the block at the call, bind the parameters, insert the callee's blocks, *)
(* turn each return into an assignment to the call's target and a jump     *)
(* past the inlined region, and push every new block on the work list.     *)
(***************************************************************************)
Rename(name, inst) == <<name[1], inst>>

RenameExpr(x, inst) ==
    IF x.e = "var" THEN Var(Rename(x.name, inst))
    ELSE IF x.e = "call" THEN
        Call(x.func, [j \in 1..Len(x.args) |-> Var(Rename(x.args[j].name, inst))])
    ELSE x

\* One statement of the callee, placed in the caller.
SpliceStmt(s, inst, callInstr, new_label) ==
    IF IsAssign(s) THEN
        IF s.value.e = "arg" THEN <<Assign(Rename(s.target, inst), callInstr.value.args[1])>>
        ELSE <<Assign(Rename(s.target, inst), RenameExpr(s.value, inst))>>
    ELSE IF IsReturn(s) THEN
        <<Assign(callInstr.target, RenameExpr(s.value, inst)), Jump(new_label)>>
    ELSE IF IsJump(s) THEN <<Jump(s.target + inst)>>
    ELSE <<Branch(Rename(s.cond, inst), s.truebr + inst, s.falsebr + inst)>>

RECURSIVE SpliceBody(_, _, _, _)
SpliceBody(body, inst, callInstr, new_label) ==
    IF body = <<>> THEN <<>>
    ELSE SpliceStmt(Head(body), inst, callInstr, new_label)
         \o SpliceBody(Tail(body), inst, callInstr, new_label)

InlineClosureCall(bl, wl, fresh, label, i, calleeIR) ==
    LET body == bl[label]
        n == Len(calleeIR)
        min_label == fresh
        new_label == fresh + n
        spliced == [l \in min_label..(new_label - 1) |->
                       SpliceBody(calleeIR[l - min_label + 1], min_label, body[i], new_label)]
        nb == [l \in DOMAIN bl \cup (min_label..new_label) |->
                 IF l = label THEN Append(SubSeq(body, 1, i - 1), Jump(min_label))
                 ELSE IF l = new_label THEN SubSeq(body, i + 1, Len(body))
                 ELSE IF l \in DOMAIN bl THEN bl[l]
                 ELSE spliced[l]]
    IN [blocks |-> nb,
        work_list |-> wl \o <<new_label>> \o [j \in 1..n |-> min_label + j - 1],
        nextLabel |-> new_label + 1]

\* A slip: work_list[-1] instead of work_list.pop().
PeekWorkList(wl) == wl

\* work_list.pop(), line 27: what is left of the list.
PopWorkList(wl) == SubSeq(wl, 1, Len(wl) - 1)

\* One iteration of the while loop, lines 26-93.
InlineStep ==
    /\ ipc = "loop"
    /\ work_list # <<>>
    /\ LET label == work_list[Len(work_list)]
           wl == PopWorkList(work_list)
           i == FirstInlinable(iblocks[label], 1)
       IN IF i = 0
          THEN /\ work_list' = wl
               /\ UNCHANGED <<iblocks, nextLabel, inlined>>
          ELSE LET r == InlineClosureCall(iblocks, wl, nextLabel, label, i,
                                          callees[ImplCallee(iblocks[label][i].value.func)])
               IN /\ iblocks' = r.blocks
                  /\ work_list' = r.work_list
                  /\ nextLabel' = r.nextLabel
                  /\ inlined' = inlined + 1
    /\ UNCHANGED <<callees, ipc, iret, dpVars, trVars, irVars, wrVars, pmVars>>

\* Lines 95-96: the work list is empty.
InlineFinish ==
    /\ ipc = "loop"
    /\ work_list = <<>>
    /\ iblocks' = DeadCodeElimination(iblocks)
    /\ ipc' = "done"
    /\ iret' = TRUE
    /\ UNCHANGED <<work_list, nextLabel, callees, inlined, dpVars, trVars, irVars, wrVars, pmVars>>

(***************************************************************************)
(* The functions the pass is given: callee k calls callee k - 1 (a chain   *)
(* of nested calls, so the call structure is acyclic), the traced function *)
(* calls any of them; every call has one of the forms impl resolves or is  *)
(* a builtin type coercion.                                                *)
(***************************************************************************)
NmX == <<"x", 0>>
NmV == <<"v", 0>>
NmW == <<"w", 0>>
NmR == <<"r", 0>>

UserForms(fn) ==
    {Global(PyFunction(fn)), FreeVar(Dispatcher(fn)),
     Getattr("global", Dispatcher(fn)), Getattr("freevar", PyFunction(fn)),
     MakeFunction(fn)}
BuiltinCall == Call(Global(BuiltinType), <<Var(NmX)>>)
UserCalls(fn) == {Call(f, <<Var(NmX)>>) : f \in UserForms(fn)}

CalleeExprs(k) == {Other, BuiltinCall} \cup (IF k > 1 THEN UserCalls(k - 1) ELSE {})
MainExprs == {Other, BuiltinCall} \cup UNION {UserCalls(k) : k \in 1..NumCallees}

Straight(e) == <<(<<Assign(NmX, Arg), Assign(NmV, e), Return(Var(NmV))>>)>>
Branchy(e) ==
    << <<Assign(NmX, Arg), Assign(NmV, Other), Branch(NmV, 1, 2)>>,
       <<Assign(NmR, e), Return(Var(NmR))>>,
       <<Assign(NmR, Other), Return(Var(NmR))>> >>

CalleeIRs(k) ==
    {Straight(e) : e \in CalleeExprs(k)}
    \cup (IF k = 1 THEN {Branchy(e) : e \in CalleeExprs(k)} ELSE {})

RECURSIVE CalleeTablesUpTo(_)
CalleeTablesUpTo(k) ==
    IF k = 0 THEN {<<>>}
    ELSE {Append(t, ir) : <<t, ir>> \in CalleeTablesUpTo(k - 1) \X CalleeIRs(k)}

MainBodies ==
    {<<Assign(NmX, Arg), Assign(NmV, e), Return(Var(NmV))>> : e \in MainExprs}
    \cup {<<Assign(NmX, Arg), Assign(NmW, e1), Assign(NmV, e2), Return(Var(NmV))>> :
             <<e1, e2>> \in MainExprs \X MainExprs}

\* The state after line 24: the work list holds every block of the function.
InitInline ==
    /\ DiamondIdle
    /\ TraceIdle
    /\ ToIrIdle
    /\ CallsIdle
    /\ PipelineIdle
    /\ callees \in CalleeTablesUpTo(NumCallees)
    /\ \E body \in MainBodies : iblocks = (0 :> body)
    /\ work_list = <<0>>
    /\ nextLabel = 1
    /\ ipc = "loop"
    /\ iret = FALSE
    /\ inlined = 0

NextInline == InlineStep \/ InlineFinish

SpecInline == InitInline /\ [][NextInline]_vars

\* The pass is sequential code: while it has a step to take it takes it.
SpecInlineFair == SpecInline /\ WF_vars(NextInline)

(***************************************************************************)
(* Claims about InlineAllCallsPass.                                        *)
(***************************************************************************)
IsUserCallee(func_def) == func_def.obj.kind \in {"function", "dispatcher", "code"}

UserCallsLeft(bl) ==
    {<<l, i>> \in UNION {{<<l, i>> : i \in 1..Len(bl[l])} : l \in DOMAIN bl} :
        IsCall(bl[l][i]) /\ IsUserCallee(bl[l][i].value.func)}

BuiltinCallsLeft(bl) ==
    {<<l, i>> \in UNION {{<<l, i>> : i \in 1..Len(bl[l])} : l \in DOMAIN bl} :
        IsCall(bl[l][i]) /\ ~IsUserCallee(bl[l][i].value.func)}

\* C5: when run_pass has returned, no Assign of any block calls a
\* user-defined callable; calls of builtin type coercions may remain.
C5_NoUserCallLeft == ipc = "done" => UserCallsLeft(iblocks) = {}

\* A chain of two nested user calls was inlined and a builtin call remains.
C5_Witness ==
    /\ ipc = "done"
    /\ inlined >= 2
    /\ BuiltinCallsLeft(iblocks) # {}
    /\ UserCallsLeft(iblocks) = {}

\* C6: for an acyclic call structure the work-list loop terminates: the
\* work list becomes empty, dead-code elimination runs and run_pass returns
\* True.
C6_InliningTerminates == <>(ipc = "done" /\ work_list = <<>> /\ iret = TRUE)

C6_Witness == ipc = "done" /\ work_list = <<>> /\ iret = TRUE /\ inlined >= 2

(***************************************************************************)
(* TracingInjectionPass, _log_trace_tuple and trace (src/tracer.py).       *)
(* A Python string that is used as a name is kept parsed: pre is the       *)
(* longest of the prefixes "$const", "const(", "$" its text starts with    *)
(* (or ""), rest is the text after it.                                     *)
(***************************************************************************)
Nm(pre, rest) == [pre |-> pre, rest |-> rest]
Plain(s) == Nm("", s)
NameText(n) == n.pre \o n.rest

\* Run-time values besides the literals: strings, tuples, the argument
\* struct (a NamedTuple) and the callables a function refers to.
StrV(n) == [ty |-> "str", s |-> n]
TupleV(items) == [ty |-> "tuple", items |-> items]
Struct(m1, m3) ==
    [ty |-> "struct", fields |-> [metric1 |-> LitInt(m1), metric3 |-> LitInt(m3)]]
Builtin(name) == [ty |-> "builtin", name |-> name]      \* operator.gt, bool, ...
LogTraceTupleFn == [ty |-> "builtin", name |-> "_log_trace_tuple"]
Unbound == [ty |-> "unbound", n |-> 0]

\* The other expression forms of the IR.
BinOp(fn, lhs, rhs) == [e |-> "binop", fn |-> fn, lhs |-> lhs, rhs |-> rhs]
InplaceBinOp(fn, lhs, rhs) == [e |-> "inplace_binop", fn |-> fn, lhs |-> lhs, rhs |-> rhs]
GetattrOf(value, attr) == [e |-> "getattr", value |-> value, attr |-> attr]
BuildTuple(items) == [e |-> "build_tuple", items |-> items]
GlobalRef(name, value) == [e |-> "global", name |-> name, value |-> value]

\* A statement with its source line (stmt.loc.line).
WithLoc(s, line) == [loc |-> line] @@ s

IsIRVar(x) == "e" \in DOMAIN x /\ x.e = "var"
IsIRExpr(v) == v.e \in {"binop", "inplace_binop", "cast", "getattr", "call", "build_tuple"}

\* str(val) for the values that occur.
PyStr(val) ==
    IF val.ty = "bool" THEN (IF val.n = 1 THEN "True" ELSE "False")
    ELSE IF val.ty = "none" THEN "None"
    ELSE IF val.ty = "str" THEN NameText(val.s)
    ELSE IF val.ty = "int" THEN ToString(val.n)
    ELSE ToString(val)

\* Lines 227-231: definitions, the last assignment of a name wins.
RECURSIVE FlatBody(_, _)
FlatBody(bl, labels) ==
    IF labels = <<>> THEN <<>> ELSE bl[Head(labels)] \o FlatBody(bl, Tail(labels))

Definitions(bl) ==
    LET flat == FlatBody(bl, SeqOfSet(DOMAIN bl))
        defd == {i \in 1..Len(flat) : IsAssign(flat[i])}
        last(n) == CHOOSE i \in defd : flat[i].target = n
                       /\ \A j \in defd : flat[j].target = n => j <= i
    IN [n \in {flat[i].target : i \in defd} |-> flat[last(n)].value]

\* resolve_name, lines 233-238.
ResolveName(definitions, var) ==
    IF IsIRVar(var) /\ var.name \in DOMAIN definitions
       /\ definitions[var.name].e = "getattr"
    THEN definitions[var.name].attr
    ELSE IF "name" \in DOMAIN var THEN var.name
    ELSE Nm("const(", var.value.ty \o ", " \o PyStr(var.value) \o ")")

\* A slip: the injected constant takes the name of a variable of the function.
ConstVarNameClash(val) == Plain("x")

\* Line 442: $const_{id(val)}. Equal ids mean the same object, hence the same
\* value; the value's type and text stand for the id.
ConstVarName(val) ==
    Nm("$const", "_" \o val.ty \o ":"
                 \o (IF val.ty = "str" THEN NameText(val.s) ELSE ToString(val.n)))

\* ensure_var, lines 433-444: the constant that is stored, the variable that
\* holds the argument and the assignment it appends (none for a Var).
EnsureVal(val) ==
    IF val.ty = "builtin" THEN StrV(Plain(val.name)) ELSE val
EnsureVar(x) == IF IsIRVar(x) THEN x ELSE Var(ConstVarName(EnsureVal(x)))
EnsureStmts(x, loc) ==
    IF IsIRVar(x) THEN <<>>
    ELSE <<WithLoc(Assign(ConstVarName(EnsureVal(x)), Const(EnsureVal(x))), loc)>>

\* _inject_log, lines 415-467: the statements it appends to body_list. uid
\* stands for id(args) and id(call_expr), which are fresh at every call.
InjectLog(uid, loc, op_name, out_name, out_val_var, in1_name, in1_val_var, in2_name, in2_val_var) ==
    LET raw == <<op_name, StrV(out_name), out_val_var, StrV(in1_name), in1_val_var,
                 StrV(in2_name),
                 IF in2_val_var # LitNone THEN in2_val_var ELSE LitInt(0),
                 LitInt(loc)>>
        args == [j \in 1..8 |-> EnsureVar(raw[j])]
        tuple_var == Nm("$", "tuple_" \o ToString(uid))
        dummy_var == Nm("$", "log_ret_" \o ToString(loc) \o "_" \o ToString(uid))
    IN EnsureStmts(raw[1], loc) \o EnsureStmts(raw[2], loc) \o EnsureStmts(raw[3], loc)
       \o EnsureStmts(raw[4], loc) \o EnsureStmts(raw[5], loc) \o EnsureStmts(raw[6], loc)
       \o EnsureStmts(raw[7], loc) \o EnsureStmts(raw[8], loc)
       \o <<WithLoc(Assign(tuple_var, BuildTuple(args)), loc),
            WithLoc(Assign(dummy_var, Call(Var(Nm("$", "log_trace_tuple")),
                                           <<Var(tuple_var)>>)), loc)>>

\* The elif chain of lines 243-397: which case a statement falls in.
StmtKind(stmt) ==
    IF IsAssign(stmt) /\ stmt.value.e = "binop" THEN "binop"
    ELSE IF IsAssign(stmt) /\ stmt.value.e = "inplace_binop" THEN "inplace_binop"
    ELSE IF IsAssign(stmt) /\ stmt.value.e = "cast" THEN "cast"
    ELSE IF IsAssign(stmt) /\ stmt.value.e \in {"var", "const"} THEN "assign"
    ELSE IF IsBranch(stmt) THEN "branch"
    ELSE IF IsReturn(stmt) THEN "return"
    ELSE IF IsAssign(stmt) /\ IsIRExpr(stmt.value) THEN "expr"
    ELSE "other"

\* Lines 356-382: op_to_log and the first input of a generic expression.
OpToLog(definitions, expr) ==
    IF expr.e = "call" /\ expr.func.name \in DOMAIN definitions
       /\ definitions[expr.func.name].e = "global"
    THEN StrV(Plain(definitions[expr.func.name].value.name))
    ELSE StrV(Plain(expr.e))

FirstInput(expr) ==
    IF expr.e = "call" /\ Len(expr.args) > 0 THEN expr.args[1]
    ELSE IF "value" \in DOMAIN expr THEN expr.value
    ELSE LitNone

\* The log statements of one statement, by case.
LogOf(definitions, stmt, uid) ==
    LET kind == StmtKind(stmt)
        loc == stmt.loc
    IN IF kind \in {"binop", "inplace_binop"} THEN
           InjectLog(uid, loc, stmt.value.fn, stmt.target, Var(stmt.target),
                     ResolveName(definitions, stmt.value.lhs), stmt.value.lhs,
                     ResolveName(definitions, stmt.value.rhs), stmt.value.rhs)
       ELSE IF kind = "cast" THEN
           InjectLog(uid, loc, StrV(Plain("cast")), stmt.target, Var(stmt.target),
                     ResolveName(definitions, stmt.value.value), stmt.value.value,
                     Plain(""), LitNone)
       ELSE IF kind = "assign" THEN
           InjectLog(uid, loc, StrV(Plain("assign")), stmt.target, Var(stmt.target),
                     ResolveName(definitions, stmt.value),
                     IF stmt.value.e = "const" THEN stmt.value.value ELSE stmt.value,
                     Plain(""), LitNone)
       ELSE IF kind = "branch" THEN
           InjectLog(uid, loc, StrV(Plain("branch")), ResolveName(definitions, stmt.cond),
                     stmt.cond, ResolveName(definitions, stmt.cond), stmt.cond,
                     Plain(""), LitNone)
       ELSE IF kind = "return" THEN
           InjectLog(uid, loc, StrV(Plain("return")), Plain("return_val"), stmt.value,
                     ResolveName(definitions, stmt.value), stmt.value,
                     Plain(""), LitNone)
       ELSE IF kind = "expr" THEN
           InjectLog(uid, loc, OpToLog(definitions, stmt.value), stmt.target,
                     Var(stmt.target),
                     IF FirstInput(stmt.value) = LitNone THEN Plain("")
                     ELSE ResolveName(definitions, FirstInput(stmt.value)),
                     FirstInput(stmt.value), Plain(""), LitNone)
       ELSE <<>>

\* A slip: the log of a branch or a return is appended after the statement.
PlaceLogAfter(stmt, log) == <<stmt>> \o log

\* Where the log goes: after an assignment (lines 249-250, 354-384), before a
\* branch or a return (lines 324-335, 339-350).
PlaceLog(stmt, log) ==
    IF StmtKind(stmt) \in {"branch", "return"} THEN log \o <<stmt>> ELSE <<stmt>> \o log

RECURSIVE InstrumentBody(_, _, _, _)
InstrumentBody(definitions, body, label, i) ==
    IF i > Len(body) THEN <<>>
    ELSE PlaceLog(body[i], LogOf(definitions, body[i], <<label, i>>))
         \o InstrumentBody(definitions, body, label, i + 1)

\* TracingInjectionPass.run_pass, lines 218-413.
TracingInjection(bl) ==
    LET definitions == Definitions(bl)
        nb == [l \in DOMAIN bl |-> InstrumentBody(definitions, bl[l], l, 1)]
        first_label == EntryLabel(bl)
        assign_global == WithLoc(Assign(Nm("$", "log_trace_tuple"),
                                        GlobalRef("_log_trace_tuple", LogTraceTupleFn)), 0)
    IN [nb EXCEPT ![first_label] = <<assign_global>> \o @]

(***************************************************************************)
(* Running a function: one statement at a time.                            *)
(***************************************************************************)
\* The text of a value that is used as a name.
AsName(val) == IF val.ty = "str" THEN val.s ELSE Plain(PyStr(val))

\* A slip: the input of a trace-worthy name is logged under a marked name
\* (the branches of lines 183 and 188 do something).
LogTraceTupleMarking(record, trace, traceable) ==
    LET op_name == AsName(record.items[1])
        out_name == AsName(record.items[2])
        in1_name == AsName(record.items[4])
        in2_name == AsName(record.items[6])
        marked(n) == IF n \in traceable THEN [n EXCEPT !.rest = @ \o "*"] ELSE n
        inputs == (IF NameText(in1_name) # ""
                   THEN << <<marked(in1_name), record.items[5]>> >> ELSE <<>>)
                  \o (IF NameText(in2_name) # ""
                      THEN << <<marked(in2_name), record.items[7]>> >> ELSE <<>>)
        is_traceable == \/ NameText(in1_name) # "" /\ in1_name \in traceable
                        \/ NameText(in2_name) # "" /\ in2_name \in traceable
    IN [trace |-> Append(trace, [op |-> NameText(op_name), output_var |-> out_name,
                                 output_val |-> record.items[3], inputs |-> inputs,
                                 lineno |-> record.items[8].n]),
        traceable |-> IF is_traceable THEN traceable \cup {out_name} ELSE traceable]

\* _log_trace_tuple, lines 174-202: the new _CURRENT_TRACE and _TRACEABLE_VARS.
LogTraceTuple(record, trace, traceable) ==
    LET op_name == AsName(record.items[1])
        out_name == AsName(record.items[2])
        out_val == record.items[3]
        in1_name == AsName(record.items[4])
        in1_val == record.items[5]
        in2_name == AsName(record.items[6])
        in2_val == record.items[7]
        lineno == record.items[8].n
        inputs == (IF NameText(in1_name) # "" THEN << <<in1_name, in1_val>> >> ELSE <<>>)
                  \o (IF NameText(in2_name) # "" THEN << <<in2_name, in2_val>> >> ELSE <<>>)
        is_traceable == \/ NameText(in1_name) # "" /\ in1_name \in traceable
                        \/ NameText(in2_name) # "" /\ in2_name \in traceable
    IN [trace |-> Append(trace, [op |-> NameText(op_name), output_var |-> out_name,
                                 output_val |-> out_val, inputs |-> inputs,
                                 lineno |-> lineno]),
        traceable |-> IF is_traceable THEN traceable \cup {out_name} ELSE traceable]

Lookup(env, n) == IF n \in DOMAIN env THEN env[n] ELSE Unbound

Truthy(val) == val.ty \in {"int", "bool", "float"} /\ val.n # 0

ApplyBinOp(fn, a, b) ==
    IF a.ty \notin {"int", "bool"} \/ b.ty \notin {"int", "bool"} THEN Unbound
    ELSE IF fn.name = "gt" THEN LitBool(a.n > b.n)
    ELSE IF fn.name = "add" THEN LitInt(a.n + b.n)
    ELSE LitInt(a.n - b.n)

ApplyCall(f, a) ==
    IF f = Builtin("bool") THEN LitBool(Truthy(a)) ELSE LitNone

\* The value of an expression.
Evaluate(x, env, arg) ==
    IF x.e = "const" THEN x.value
    ELSE IF x.e = "var" THEN Lookup(env, x.name)
    ELSE IF x.e = "cast" THEN Lookup(env, x.value.name)
    ELSE IF x.e \in {"binop", "inplace_binop"} THEN
        ApplyBinOp(x.fn, Lookup(env, x.lhs.name), Lookup(env, x.rhs.name))
    ELSE IF x.e = "getattr" THEN
        (IF Lookup(env, x.value.name).ty = "struct"
         THEN Lookup(env, x.value.name).fields[NameText(x.attr)] ELSE Unbound)
    ELSE IF x.e = "build_tuple" THEN
        TupleV([j \in 1..Len(x.items) |-> Lookup(env, x.items[j].name)])
    ELSE IF x.e = "global" THEN x.value
    ELSE IF x.e = "arg" THEN arg
    ELSE IF x.e = "call" THEN
        ApplyCall(Lookup(env, x.func.name),
                  IF Len(x.args) > 0 THEN Lookup(env, x.args[1].name) ELSE LitNone)
    ELSE Unbound

IsLogCall(x, env) ==
    /\ x.e = "call" /\ Lookup(env, x.func.name) = LogTraceTupleFn
    /\ Len(x.args) = 1 /\ Lookup(env, x.args[1].name).ty = "tuple"

\* A statement of the function as the pass was given it (the pass keeps the
\* statement objects and adds its own around them).
IsOriginal(stmt, label, orig) ==
    label \in DOMAIN orig /\ \E j \in 1..Len(orig[label]) : orig[label][j] = stmt

StartCall(bl, arg) ==
    [label |-> EntryLabel(bl), idx |-> 1, env |-> <<>>, arg |-> arg, path |-> <<>>,
     status |-> "run", res |-> LitNone]

\* One statement of the function: st holds the frame m and the two globals.
ExecStmt(st, bl, orig) ==
    LET m == st.m
        stmt == bl[m.label][m.idx]
        path == IF IsOriginal(stmt, m.label, orig) THEN Append(m.path, stmt) ELSE m.path
    IN IF IsAssign(stmt) THEN
           LET val == Evaluate(stmt.value, m.env, m.arg)
               lg == IF IsLogCall(stmt.value, m.env)
                     THEN LogTraceTuple(Lookup(m.env, stmt.value.args[1].name),
                                        st.trace, st.traceable)
                     ELSE [trace |-> st.trace, traceable |-> st.traceable]
           IN [m |-> [m EXCEPT !.idx = @ + 1, !.env = (stmt.target :> val) @@ m.env,
                               !.path = path],
               trace |-> lg.trace, traceable |-> lg.traceable]
       ELSE IF IsJump(stmt) THEN
           [st EXCEPT !.m = [m EXCEPT !.label = stmt.target, !.idx = 1, !.path = path]]
       ELSE IF IsBranch(stmt) THEN
           [st EXCEPT !.m = [m EXCEPT
               !.label = IF Truthy(Lookup(m.env, stmt.cond.name))
                         THEN stmt.truebr ELSE stmt.falsebr,
               !.idx = 1, !.path = path]]
       ELSE [st EXCEPT !.m = [m EXCEPT !.status = "returned",
                                       !.res = Lookup(m.env, stmt.value.name),
                                       !.path = path]]

\* The whole call, for the function as it was before instrumentation.
RunFuel == 20 * (MaxField + 2)

RECURSIVE RunToEnd(_, _, _)
RunToEnd(st, bl, fuel) ==
    IF st.m.status # "run" \/ fuel = 0 THEN st
    ELSE CHOOSE r \in {RunToEnd(nx, bl, fuel - 1) : nx \in {ExecStmt(st, bl, bl)}} : TRUE

RunOriginal(bl, arg) ==
    RunToEnd([m |-> StartCall(bl, arg), trace |-> <<>>, traceable |-> {}], bl, RunFuel).m

\* TracingInjectionPass.run_pass as the pipeline runs it (line 483).
InjectTracing ==
    /\ tphase = "compile"
    /\ func_ir' = TracingInjection(func_ir)
    /\ tphase' = "ready"
    /\ UNCHANGED <<orig_ir, mach, CURRENT_TRACE, TRACEABLE_VARS, wrapper_trace,
                   wrapper_res, ncalls, unmarked_run, dpVars, inVars, irVars, wrVars,
                   pmVars>>

\* wrapper, lines 505-513: reset the globals and enter compiled_func.
ArgValues == {Struct(m1, m3) : <<m1, m3>> \in (0..MaxField) \X (0..MaxField)}
ParamNames == {Plain("user")}

CallWrapper ==
    /\ tphase = "ready"
    /\ ncalls < MaxCalls
    /\ \E arg \in ArgValues : mach' = StartCall(func_ir, arg)
    /\ CURRENT_TRACE' = <<>>
    /\ TRACEABLE_VARS' \in SUBSET ParamNames
    /\ unmarked_run' = [m |-> mach', trace |-> <<>>, traceable |-> {}]
    /\ tphase' = "running"
    /\ UNCHANGED <<func_ir, orig_ir, wrapper_trace, wrapper_res, ncalls, dpVars, inVars,
                   irVars, wrVars, pmVars>>

\* compiled_func executes its next statement.
ExecStep ==
    /\ tphase = "running"
    /\ mach.status = "run"
    /\ LET st == ExecStmt([m |-> mach, trace |-> CURRENT_TRACE,
                           traceable |-> TRACEABLE_VARS], func_ir, orig_ir)
       IN /\ mach' = st.m
          /\ CURRENT_TRACE' = st.trace
          /\ TRACEABLE_VARS' = st.traceable
    /\ unmarked_run' = IF unmarked_run.m.status = "run"
                       THEN ExecStmt(unmarked_run, func_ir, orig_ir)
                       ELSE unmarked_run
    /\ UNCHANGED <<func_ir, orig_ir, tphase, wrapper_trace, wrapper_res, ncalls,
                   dpVars, inVars, irVars, wrVars, pmVars>>

\* wrapper, lines 513-515: compiled_func has returned.
WrapperReturn ==
    /\ tphase = "running"
    /\ mach.status = "returned"
    /\ wrapper_trace' = CURRENT_TRACE
    /\ wrapper_res' = mach.res
    /\ ncalls' = ncalls + 1
    /\ tphase' = "ready"
    /\ UNCHANGED <<func_ir, orig_ir, mach, CURRENT_TRACE, TRACEABLE_VARS, unmarked_run,
                   dpVars, inVars, irVars, wrVars, pmVars>>

(***************************************************************************)
(* The functions that are traced, as the passes before TracingInjectionPass *)
(* leave them: the decisions of src/test_tracer.py over the fields of a    *)
(* user, and a counting loop.                                              *)
(***************************************************************************)
Located(label, body) == [i \in 1..Len(body) |-> WithLoc(body[i], 10 * label + i)]

TUser == Plain("user")
TmpA == Nm("$", "a")
TmpB == Nm("$", "b")
TmpC == Nm("$const", "4.1")
TmpG == Nm("$", "g")
TmpP == Nm("$", "p")
TmpR == Nm("$", "r")
TmpT == Nm("$", "t")
LocalX == Plain("x")
LocalI == Plain("i")

\* return user.metric3 <fn> c
SimplestDecision(fn, c) ==
    0 :> Located(0, <<Assign(TUser, Arg),
                      Assign(TmpA, GetattrOf(Var(TUser), Plain("metric3"))),
                      Assign(TmpC, Const(LitInt(c))),
                      Assign(TmpB, BinOp(Builtin(fn), Var(TmpA), Var(TmpC))),
                      Assign(TmpR, Cast(Var(TmpB))),
                      Return(Var(TmpR))>>)

\* if user.metric1 > c: x = user.metric3; return x   else: return False
BranchDecision(c, t, f) ==
    (0 :> Located(0, <<Assign(TUser, Arg),
                       Assign(TmpA, GetattrOf(Var(TUser), Plain("metric1"))),
                       Assign(TmpC, Const(LitInt(c))),
                       Assign(TmpB, BinOp(Builtin("gt"), Var(TmpA), Var(TmpC))),
                       Assign(TmpG, GlobalRef("bool", Builtin("bool"))),
                       Assign(TmpP, Call(Var(TmpG), <<Var(TmpB)>>)),
                       Branch(Var(TmpP), t, f)>>))
    @@ (t :> Located(t, <<Assign(TmpA, GetattrOf(Var(TUser), Plain("metric3"))),
                          Assign(LocalX, Var(TmpA)),
                          Assign(TmpR, Cast(Var(LocalX))),
                          Return(Var(TmpR))>>))
    @@ (f :> Located(f, <<Assign(TmpC, Const(LitBool(FALSE))),
                          Assign(TmpR, Cast(Var(TmpC))),
                          Return(Var(TmpR))>>))

\* i = 0; while True: i += c; if i > user.metric3: return i
CountingLoop(c) ==
    (0 :> Located(0, <<Assign(TUser, Arg),
                       Assign(TmpA, GetattrOf(Var(TUser), Plain("metric3"))),
                       Assign(LocalI, Const(LitInt(0))),
                       Jump(1)>>))
    @@ (1 :> Located(1, <<Assign(TmpC, Const(LitInt(c))),
                          Assign(TmpT, InplaceBinOp(Builtin("add"), Var(LocalI), Var(TmpC))),
                          Assign(LocalI, Var(TmpT)),
                          Assign(TmpB, BinOp(Builtin("gt"), Var(LocalI), Var(TmpA))),
                          Branch(Var(TmpB), 2, 1)>>))
    @@ (2 :> Located(2, <<Assign(TmpR, Cast(Var(LocalI))),
                          Return(Var(TmpR))>>))

TracedFunctions ==
    {SimplestDecision(fn, c) : <<fn, c>> \in {"gt", "add", "sub"} \X (0..MaxField)}
    \cup {BranchDecision(c, tf[1], tf[2]) : <<c, tf>> \in (0..MaxField) \X {<<1, 2>>, <<2, 1>>}}
    \cup {CountingLoop(c) : c \in 1..2}

NoCall ==
    [label |-> 0, idx |-> 0, env |-> <<>>, arg |-> LitNone, path |-> <<>>,
     status |-> "none", res |-> LitNone]

InitInstr ==
    /\ DiamondIdle
    /\ InlineIdle
    /\ ToIrIdle
    /\ CallsIdle
    /\ PipelineIdle
    /\ func_ir \in TracedFunctions
    /\ orig_ir = func_ir
    /\ tphase = "compile"
    /\ mach = NoCall
    /\ CURRENT_TRACE = <<>>
    /\ TRACEABLE_VARS = {}
    /\ wrapper_trace = <<>>
    /\ wrapper_res = LitNone
    /\ ncalls = 0
    /\ unmarked_run = [m |-> NoCall, trace |-> <<>>, traceable |-> {}]

NextInstr == InjectTracing \/ CallWrapper \/ ExecStep \/ WrapperReturn

SpecInstr == InitInstr /\ [][NextInstr]_vars

(***************************************************************************)
(* Claims about instrumentation.                                           *)
(***************************************************************************)
IsPrefix(a, b) == Len(a) <= Len(b) /\ SubSeq(b, 1, Len(a)) = a

\* C7: instrumentation does not change the function's result: for every
\* input the instrumented function, and the wrapper, return what the
\* uninstrumented function returns, and the original statements are executed
\* along the same path.
C7_InstrumentationKeepsResult ==
    /\ tphase = "running" =>
          /\ RunOriginal(orig_ir, mach.arg).status = "returned"
          /\ IsPrefix(mach.path, RunOriginal(orig_ir, mach.arg).path)
    /\ (tphase = "running" /\ mach.status = "returned") =>
          /\ mach.res = RunOriginal(orig_ir, mach.arg).res
          /\ mach.path = RunOriginal(orig_ir, mach.arg).path
    /\ (tphase = "ready" /\ ncalls > 0) =>
          wrapper_res = RunOriginal(orig_ir, mach.arg).res

\* A call that took a branch and logged events has returned through wrapper.
C7_Witness ==
    /\ tphase = "ready" /\ ncalls > 0
    /\ func_ir # orig_ir
    /\ wrapper_trace # <<>>
    /\ \E i \in 1..Len(mach.path) : IsBranch(mach.path[i])
    /\ wrapper_res = mach.res /\ wrapper_res.ty = "int"

\* The executed statements of a listed kind, and the lines of a sequence of
\* statements and of a sequence of events.
Listed(path) == SelectSeq(path, LAMBDA stmt : StmtKind(stmt) # "other")
LocsOf(stmts) == [i \in 1..Len(stmts) |-> stmts[i].loc]
LinenosOf(trace) == [i \in 1..Len(trace) |-> trace[i].lineno]
OpsOf(trace) == [i \in 1..Len(trace) |-> trace[i].op = "branch"]
BranchesOf(stmts) == [i \in 1..Len(stmts) |-> IsBranch(stmts[i])]

\* C8: during a call one TraceEvent is appended per executed statement of a
\* listed kind, in execution order; the event of an assignment is appended
\* right after the statement (before any other statement of the function
\* executes), the event of a branch (and of a return) before control is
\* transferred.
C8_OneEventPerStatementInOrder ==
    tphase = "running" =>
      LET done == Listed(mach.path)
          now == IF mach.status = "run" THEN func_ir[mach.label][mach.idx]
                 ELSE Jump(NoLabel)
      IN /\ \/ LinenosOf(CURRENT_TRACE) = LocsOf(done)
            \/ /\ done # <<>>
               /\ Last(mach.path) = Last(done)
               /\ StmtKind(Last(done)) \notin {"branch", "return"}
               /\ LinenosOf(CURRENT_TRACE) = LocsOf(SubSeq(done, 1, Len(done) - 1))
            \/ /\ StmtKind(now) \in {"branch", "return"}
               /\ LinenosOf(CURRENT_TRACE) = Append(LocsOf(done), now.loc)
         /\ (mach.path # <<>> /\ StmtKind(Last(mach.path)) \in {"branch", "return"}) =>
               /\ LinenosOf(CURRENT_TRACE) = LocsOf(done)
               /\ OpsOf(CURRENT_TRACE) = BranchesOf(done)
         /\ mach.status = "returned" => Len(CURRENT_TRACE) = Len(done)

\* A loop body ran twice: the same branch was logged twice, every listed kind
\* of statement was executed and the call has returned.
C8_Witness ==
    /\ tphase = "running" /\ mach.status = "returned"
    /\ Cardinality({i \in 1..Len(CURRENT_TRACE) : CURRENT_TRACE[i].op = "branch"}) >= 2
    /\ {"inplace_binop", "binop", "cast", "assign", "branch", "return", "expr", "other"}
          \subseteq {StmtKind(mach.path[i]) : i \in 1..Len(mach.path)}
    /\ Len(CURRENT_TRACE) = Len(Listed(mach.path))

(***************************************************************************)
(* Trace.to_ir (src/tracer.py, lines 76-163).                              *)
(* The emitted nodes are kept in a list; a Conditional's value holds the   *)
(* position in that list of the node it refers to, 0 for None.             *)
(***************************************************************************)
TraceEvent(op, output_var, output_val, inputs, lineno) ==
    [op |-> op, output_var |-> output_var, output_val |-> output_val,
     inputs |-> inputs, lineno |-> lineno]

Expression(text, value) == [text |-> text, value |-> value]
ReturnNode(expression) == [node |-> "Return", expression |-> expression]
ConditionalNode(condition, value) ==
    [node |-> "Conditional", condition |-> condition, value |-> value]

\* A slip in the table: gt rendered as >=.
BinaryOpsGtAsGe ==
    [add |-> "+", sub |-> "-", mul |-> "*", div |-> "/", truediv |-> "/",
     floordiv |-> "//", mod |-> "%", pow |-> "**", gt |-> ">=", ge |-> ">=",
     lt |-> "<", le |-> "<=", eq |-> "==", ne |-> "!=", bitand |-> "&",
     bitor |-> "|", bitxor |-> "^", lshift |-> "<<", rshift |-> ">>"]

\* Lines 78-98.
BINARY_OPS ==
    [add |-> "+", sub |-> "-", mul |-> "*", div |-> "/", truediv |-> "/",
     floordiv |-> "//", mod |-> "%", pow |-> "**", gt |-> ">", ge |-> ">=",
     lt |-> "<", le |-> "<=", eq |-> "==", ne |-> "!=", bitand |-> "&",
     bitor |-> "|", bitxor |-> "^", lshift |-> "<<", rshift |-> ">>"]

\* "%.4f" of a float given in ten-thousandths.
Fixed4(tt) ==
    LET a == IF tt < 0 THEN 0 - tt ELSE tt
        frac == a % 10000
        pad == IF frac < 10 THEN "000" ELSE IF frac < 100 THEN "00"
               ELSE IF frac < 1000 THEN "0" ELSE ""
    IN (IF tt < 0 THEN "-" ELSE "") \o ToString(a \div 10000) \o "." \o pad \o ToString(frac)

\* stringify_constant, lines 68-69.
StringifyConstant(val) == IF val.ty = "float" THEN Fixed4(val.n) ELSE PyStr(val)

\* name.startswith(prefix) for the prefixes to_ir asks about.
StartsWith(name, prefix) ==
    IF prefix = "$" THEN name.pre \in {"$", "$const"} ELSE name.pre = prefix

\* A slip: a temporary without a mapping is returned as it is.
ResolveNoPlaceholder(var_exprs, name, val) ==
    IF name \in DOMAIN var_exprs THEN var_exprs[name]
    ELSE IF StartsWith(name, "$const") \/ StartsWith(name, "const(") THEN StringifyConstant(val)
    ELSE NameText(name)

\* resolve, lines 100-107.
Resolve(var_exprs, name, val) ==
    IF name \in DOMAIN var_exprs THEN var_exprs[name]
    ELSE IF StartsWith(name, "$const") \/ StartsWith(name, "const(") THEN StringifyConstant(val)
    ELSE IF StartsWith(name, "$") /\ ~StartsWith(name, "$const") THEN "unknown variable"
    ELSE NameText(name)

\* A slip: only a condition that is the text True is taken for a constant.
IsConcreteBooleanTrueOnly(expr_str) == expr_str = "True"

\* Line 117: the condition is a concrete boolean, not an expression.
IsConcreteBoolean(expr_str) == expr_str \in {"True", "False"}

\* A slip: only the first input is resolved.
JoinArgsFirstOnly(var_exprs, inputs, i) ==
    IF Len(inputs) = 0 THEN ""
    ELSE Resolve(var_exprs, inputs[1][1], inputs[1][2])

\* ", ".join(...) of line 152.
RECURSIVE JoinArgs(_, _, _)
JoinArgs(var_exprs, inputs, i) ==
    IF i > Len(inputs) THEN ""
    ELSE (IF i > 1 THEN ", " ELSE "")
         \o Resolve(var_exprs, inputs[i][1], inputs[i][2])
         \o JoinArgs(var_exprs, inputs, i + 1)

\* One iteration of the loop over the events, lines 111-153. st holds
\* var_exprs and nodes; raised is set when the iteration raises IndexError;
\* src (which event emitted a node) and cond_text (the expr_str of a branch
\* event) record what the iteration did.
Emit(st, node, i) ==
    [st EXCEPT !.nodes = Append(@, node), !.src = Append(@, i)]
Bind(st, name, text) ==
    [st EXCEPT !.var_exprs = (name :> text) @@ @]

ProcessEvent(st, event, i) ==
    IF event.op = "branch" THEN
        IF Len(event.inputs) = 0 THEN [st EXCEPT !.raised = TRUE]
        ELSE LET expr_str == Resolve(st.var_exprs, event.inputs[1][1], event.inputs[1][2])
                 seen == [st EXCEPT !.cond_text = (i :> expr_str) @@ @]
             IN IF IsConcreteBoolean(expr_str) THEN seen
                ELSE Emit(seen, ConditionalNode(Expression(expr_str, event.inputs[1][2]), 0), i)
    ELSE IF event.op = "return" THEN
        Emit(st, ReturnNode(Expression(
                     IF Len(event.inputs) > 0
                     THEN Resolve(st.var_exprs, event.inputs[1][1], event.inputs[1][2])
                     ELSE StringifyConstant(event.output_val),
                     event.output_val)), i)
    ELSE IF event.op \in {"cast", "assign"} /\ Len(event.inputs) = 1 THEN
        Bind(st, event.output_var,
             Resolve(st.var_exprs, event.inputs[1][1], event.inputs[1][2]))
    ELSE IF event.op \in DOMAIN BINARY_OPS THEN
        IF Len(event.inputs) < 2 THEN [st EXCEPT !.raised = TRUE]
        ELSE Bind(st, event.output_var,
                  "(" \o Resolve(st.var_exprs, event.inputs[1][1], event.inputs[1][2])
                  \o " " \o BINARY_OPS[event.op] \o " "
                  \o Resolve(st.var_exprs, event.inputs[2][1], event.inputs[2][2]) \o ")")
    ELSE IF event.op = "bool" THEN
        Bind(st, event.output_var,
             IF Len(event.inputs) > 0
             THEN Resolve(st.var_exprs, event.inputs[1][1], event.inputs[1][2])
             ELSE "False")
    ELSE Bind(st, event.output_var,
              event.op \o "(" \o JoinArgs(st.var_exprs, event.inputs, 1) \o ")")

RECURSIVE ProcessEvents(_, _, _)
ProcessEvents(st, evs, i) ==
    IF i > Len(evs) \/ st.raised THEN st
    ELSE ProcessEvents(ProcessEvent(st, evs[i], i), evs, i + 1)

\* A slip: range(len(nodes) - 3, -1, -1).
LinkStartShort(n) == n - 2

\* Line 159: the first i of range(len(nodes) - 2, -1, -1), counting from 1.
LinkStart(n) == n - 1

\* The link loop, lines 159-161; writes counts the assignments of value.
RECURSIVE LinkNodes(_, _)
LinkNodes(st, i) ==
    IF i < 1 THEN st
    ELSE LinkNodes(IF st.nodes[i].node = "Conditional"
                   THEN [st EXCEPT !.nodes[i].value = i + 1, !.writes[i] = @ + 1]
                   ELSE st,
                   i - 1)

\* to_ir as a whole; root is the position of the returned node, 0 for None.
StartOfToIr ==
    [var_exprs |-> <<>>, nodes |-> <<>>, src |-> <<>>, cond_text |-> <<>>, raised |-> FALSE]

ToIrResult(evs) ==
    LET st == ProcessEvents(StartOfToIr, evs, 1)
        n == Len(st.nodes)
        linked == LinkNodes([nodes |-> st.nodes, writes |-> [j \in 1..n |-> 0]],
                            LinkStart(n))
    IN IF st.raised
       THEN [raised |-> TRUE, nodes |-> <<>>, writes |-> <<>>, src |-> <<>>,
             cond_text |-> st.cond_text, root |-> 0]
       ELSE [raised |-> FALSE, nodes |-> linked.nodes, writes |-> linked.writes,
             src |-> st.src, cond_text |-> st.cond_text,
             root |-> IF n = 0 THEN 0 ELSE 1]

ToIr ==
    /\ irpc = "call"
    /\ ir_result' = ToIrResult(events)
    /\ irpc' = "done"
    /\ UNCHANGED <<events, rendered, dpVars, inVars, trVars, wrVars, pmVars>>

\* Conditional.__str__, lines 58-60: the value suffix of the condition.
\* A slip: the suffix is written for a condition without a value too.
CondValStrAlways(value) == " (=" \o PyStr(value) \o ")"

CondValStr(value) == IF value # LitNone THEN " (=" \o PyStr(value) \o ")" ELSE ""

\* __str__ of Return (line 49) and of Conditional (lines 57-65). A text of
\* several lines is kept as the list of its lines: "\n".join and
\* str.splitlines go from one to the other.
RECURSIVE StrOfNode(_, _)
StrOfNode(nodes, j) ==
    IF nodes[j].node = "Return" THEN <<"return " \o nodes[j].expression.text>>
    ELSE LET head == "if " \o nodes[j].condition.text
                     \o CondValStr(nodes[j].condition.value) \o ":"
             below == IF nodes[j].value # 0 THEN StrOfNode(nodes, nodes[j].value) ELSE <<>>
         IN <<head>> \o [i \in 1..Len(below) |-> "  " \o below[i]]

\* pretty_print, lines 165-166: str(self.to_ir()).
PrettyPrint ==
    /\ irpc = "done"
    /\ ~ir_result.raised
    /\ rendered' = (IF ToIrResult(events).root = 0 THEN <<"None">>
                    ELSE StrOfNode(ToIrResult(events).nodes, ToIrResult(events).root))
    /\ irpc' = "printed"
    /\ UNCHANGED <<events, ir_result, dpVars, inVars, trVars, wrVars, pmVars>>

(***************************************************************************)
(* The event lists to_ir is given: every list of up to MaxEvents events    *)
(* over an alphabet with runtime-decided and constant conditions, mapped   *)
(* and unmapped temporaries, and events that carry fewer inputs than their *)
(* operation reads.                                                        *)
(***************************************************************************)
EvX == Plain("x")
EvT == Nm("$", "t")
EvC == Nm("$const", "_7")

EventAlphabet ==
    {TraceEvent("branch", EvC, LitBool(TRUE), << <<EvC, LitBool(TRUE)>> >>, 1),
     TraceEvent("branch", EvC, LitBool(FALSE), << <<EvC, LitBool(FALSE)>> >>, 1),
     TraceEvent("branch", EvX, LitBool(TRUE), << <<EvX, LitBool(TRUE)>> >>, 2),
     TraceEvent("branch", EvT, LitBool(FALSE), << <<EvT, LitBool(FALSE)>> >>, 3),
     TraceEvent("branch", EvT, LitBool(TRUE), <<>>, 3),
     TraceEvent("branch", EvX, LitNone, << <<EvX, LitNone>> >>, 2),
     TraceEvent("return", Plain("return_val"), LitBool(TRUE), << <<EvT, LitBool(TRUE)>> >>, 4),
     TraceEvent("return", Plain("return_val"), LitInt(5), <<>>, 4),
     TraceEvent("gt", EvT, LitBool(TRUE), << <<EvX, LitInt(6)>>, <<EvC, LitFloat(3000)>> >>, 5),
     TraceEvent("gt", EvT, LitBool(TRUE), << <<EvX, LitInt(6)>> >>, 5),
     TraceEvent("assign", EvT, LitBool(TRUE), << <<EvC, LitBool(TRUE)>> >>, 6),
     TraceEvent("cast", EvX, LitInt(5), << <<EvT, LitInt(5)>> >>, 6),
     TraceEvent("bool", EvT, LitBool(FALSE), <<>>, 7),
     TraceEvent("getattr", EvT, LitInt(5), << <<EvX, LitInt(6)>>, <<EvC, LitInt(5)>> >>, 8),
     TraceEvent("getattr", EvT, LitInt(5), << <<EvX, LitInt(6)>> >>, 8),
     TraceEvent("call", EvT, LitInt(5), <<>>, 8)}

\* The events a call of the traced function bl logs: the function is
\* instrumented and run to its end.
TraceOf(bl, arg) ==
    CHOOSE tr \in {RunToEnd([m |-> StartCall(ib, arg), trace |-> <<>>, traceable |-> {}],
                            ib, RunFuel).trace : ib \in {TracingInjection(bl)}} : TRUE

\* make_simplest_decision of src/test_tracer.py, `return user.metric3 > 5`,
\* called with metric3 = m3.
SimplestDecisionEvents(m3) == TraceOf(SimplestDecision("gt", 5), Struct(0, m3))

EventLists ==
    UNION {[1..n -> EventAlphabet] : n \in 0..MaxEvents}
    \cup {SimplestDecisionEvents(6), SimplestDecisionEvents(1)}

NoIr == [raised |-> FALSE, nodes |-> <<>>, writes |-> <<>>, src |-> <<>>,
         cond_text |-> <<>>, root |-> 0]

InitToIr ==
    /\ DiamondIdle
    /\ InlineIdle
    /\ TraceIdle
    /\ CallsIdle
    /\ PipelineIdle
    /\ events \in EventLists
    /\ ir_result = NoIr
    /\ irpc = "call"
    /\ rendered = <<>>

NextToIr == ToIr \/ PrettyPrint

SpecToIr == InitToIr /\ [][NextToIr]_vars

(***************************************************************************)
(* Claims about Trace.to_ir.                                               *)
(***************************************************************************)
\* The returned tree: the positions reached from the root through value.
RECURSIVE ChainFrom(_, _)
ChainFrom(nodes, j) ==
    IF j = 0 \/ j > Len(nodes) THEN <<>>
    ELSE <<j>> \o ChainFrom(nodes, IF nodes[j].node = "Conditional" THEN nodes[j].value ELSE 0)

Tree(res) == ChainFrom(res.nodes, res.root)
InTree(res, j) == \E p \in 1..Len(Tree(res)) : Tree(res)[p] = j

\* The Conditional nodes an event produced, all of them and those in the tree.
ConditionalsOf(res, i) ==
    {j \in 1..Len(res.nodes) : res.src[j] = i /\ res.nodes[j].node = "Conditional"}
ConditionalsInTree(res, i) == {j \in ConditionalsOf(res, i) : InTree(res, j)}

BranchEvents(evs) == {i \in 1..Len(evs) : evs[i].op = "branch"}
ReturnBefore(evs, i) == \E h \in 1..(i - 1) : evs[h].op = "return"

UnmappedTemporaryFirst(evs) ==
    /\ Len(evs) > 0 /\ evs[1].op = "branch" /\ Len(evs[1].inputs) > 0
    /\ StartsWith(evs[1].inputs[1][1], "$") /\ ~StartsWith(evs[1].inputs[1][1], "$const")

\* C11: to_ir never raises: for every event list whose events carry 0 to 2
\* inputs (branch and binary-operator events with fewer inputs than they read
\* included) it completes and returns a node or None; an unmapped temporary
\* resolves to "unknown variable" and the empty list gives None.
C11_ReconstructionNeverRaises ==
    irpc = "done" =>
        /\ ~ir_result.raised
        /\ (events = <<>> => ir_result.root = 0)
        /\ (UnmappedTemporaryFirst(events) => ir_result.cond_text[1] = "unknown variable")

(***************************************************************************)
(* Calls of the wrappers that trace() returns (src/tracer.py, lines        *)
(* 502-517) and the list they share with _log_trace_tuple (lines 169-202). *)
(* Lists are objects: _CURRENT_TRACE and Trace.events name a list by its   *)
(* identity, so that sharing a list and copying it differ.  The compiled   *)
(* function is reduced to the calls of _log_trace_tuple it makes; an event *)
(* is reduced to the invocation that appended it and its position.         *)
(***************************************************************************)
NumThreads == 2
MaxInvocations == 3
MaxLogged == 2

Threads == 1..NumThreads
Wrappers == {"f", "g"}

Logged(inv, k) == [inv |-> inv, lineno |-> k]

NoFrame == [pc |-> "idle", fn |-> "", inv |-> 0, left |-> 0, k |-> 0, own |-> 0]
NoTrace == [events |-> 0, inv |-> 0]

\* An invocation that has entered wrapper and not yet assigned wrapper.trace.
InProgress(fr) == fr.pc = "run"
ActiveInvocations == {frames[t].inv : t \in {u \in Threads : InProgress(frames[u])}}

\* A slip: the reset keeps the contents of the list in use.
FreshTraceStale(old) == old

\* Line 509: the contents of the list that `[]` makes.
FreshTrace(old) == <<>>

\* A different design: every invocation appends to the list it made itself.
AppendTargetOwn(cur, fr) == fr.own

\* Line 202: _log_trace_tuple appends to whatever the global names now.
AppendTarget(cur, fr) == cur

\* Line 513: list(_CURRENT_TRACE), a new list with the same contents.
CopyList(heap, ref) == Append(heap, heap[ref])

\* wrapper, lines 509-510: rebind _CURRENT_TRACE to a new list; n is the
\* number of statements the call will log, which its arguments decide.
WrapperEnter(t, fn, n) ==
    /\ frames[t].pc = "idle"
    /\ started < MaxInvocations
    /\ overlapping \/ \A u \in Threads : frames[u].pc = "idle"
    /\ lists' = Append(lists, FreshTrace(lists[current_ref]))
    /\ current_ref' = Len(lists) + 1
    /\ started' = started + 1
    /\ frames' = [frames EXCEPT ![t] = [pc |-> "run", fn |-> fn, inv |-> started + 1,
                                        left |-> n, k |-> 0, own |-> Len(lists) + 1]]
    /\ appended' = Append(appended, <<>>)
    /\ since_reset' = <<>>
    /\ overlaps' = overlaps \cup {{started + 1, j} : j \in ActiveInvocations}
    /\ outcome' = Append(outcome, [fn |-> fn, result |-> "running"])
    /\ UNCHANGED <<trace_attr, obtained, overlapping, dpVars, inVars, trVars, irVars, pmVars>>

\* compiled_func reaches its next log statement: _log_trace_tuple, line 202.
LogEvent(t) ==
    /\ frames[t].pc = "run"
    /\ frames[t].left > 0
    /\ LET fr == frames[t]
           ev == Logged(fr.inv, fr.k + 1)
       IN /\ lists' = [lists EXCEPT ![AppendTarget(current_ref, fr)] = Append(@, ev)]
          /\ appended' = [appended EXCEPT ![fr.inv] = Append(@, ev)]
          /\ since_reset' = Append(since_reset, ev)
          /\ frames' = [frames EXCEPT ![t].left = @ - 1, ![t].k = @ + 1]
    /\ UNCHANGED <<current_ref, trace_attr, obtained, overlaps, started, overlapping,
                   outcome, dpVars, inVars, trVars, irVars, pmVars>>

\* wrapper, lines 512-515: compiled_func has returned; wrapper.trace is
\* assigned a Trace over a copy of the shared list.
WrapperPublish(t) ==
    /\ frames[t].pc = "run"
    /\ frames[t].left = 0
    /\ lists' = CopyList(lists, current_ref)
    /\ trace_attr' = [trace_attr EXCEPT ![frames[t].fn] =
                          [events |-> Len(lists) + 1, inv |-> frames[t].inv]]
    /\ frames' = [frames EXCEPT ![t].pc = "returned"]
    /\ outcome' = [outcome EXCEPT ![frames[t].inv].result = "returned"]
    /\ UNCHANGED <<current_ref, obtained, appended, since_reset, overlaps, started,
                   overlapping, dpVars, inVars, trVars, irVars, pmVars>>

\* A slip: the assignment of line 513 sits in a finally clause, so that a
\* call that raises leaves a Trace of what it logged.
AttrAfterRaisePublished(old, ref, inv) == [events |-> ref, inv |-> inv]

\* Lines 512-513 when compiled_func raises: nothing catches the exception
\* in wrapper, line 513 is not reached and wrapper.trace keeps its value.
AttrAfterRaise(old, ref, inv) == old

\* wrapper, line 512: compiled_func raises, after any number of the events
\* the call would log; the exception leaves wrapper and reaches the caller.
WrapperRaises(t) ==
    /\ frames[t].pc = "run"
    /\ trace_attr' = [trace_attr EXCEPT ![frames[t].fn] =
                          AttrAfterRaise(@, current_ref, frames[t].inv)]
    /\ outcome' = [outcome EXCEPT ![frames[t].inv].result = "raised"]
    /\ frames' = [frames EXCEPT ![t] = NoFrame]
    /\ UNCHANGED <<lists, current_ref, obtained, appended, since_reset, overlaps, started,
                   overlapping, dpVars, inVars, trVars, irVars, pmVars>>

\* The caller reads wrapper.trace after its call has returned and keeps it.
ReadTrace(t) ==
    /\ frames[t].pc = "returned"
    /\ LET tr == trace_attr[frames[t].fn]
       IN obtained' = obtained \cup {[by |-> frames[t].inv, inv |-> tr.inv,
                                      events |-> tr.events, seen |-> lists[tr.events]]}
    /\ frames' = [frames EXCEPT ![t] = NoFrame]
    /\ UNCHANGED <<lists, current_ref, trace_attr, appended, since_reset, overlaps,
                   started, overlapping, outcome, dpVars, inVars, trVars, irVars, pmVars>>

CallsStart(callers_overlap) ==
    /\ overlapping = callers_overlap
    /\ DiamondIdle
    /\ InlineIdle
    /\ TraceIdle
    /\ ToIrIdle
    /\ PipelineIdle
    /\ lists = << <<>> >>
    /\ current_ref = 1
    /\ trace_attr = [fn \in Wrappers |-> NoTrace]
    /\ frames = [t \in Threads |-> NoFrame]
    /\ obtained = {}
    /\ appended = <<>>
    /\ since_reset = <<>>
    /\ overlaps = {}
    /\ started = 0
    /\ outcome = <<>>

NextCalls ==
    \E t \in Threads :
        \/ \E fn \in Wrappers, n \in 0..MaxLogged : WrapperEnter(t, fn, n)
        \/ LogEvent(t)
        \/ WrapperPublish(t)
        \/ WrapperRaises(t)
        \/ ReadTrace(t)

\* Callers that never start a call while another is in progress.
InitCallsSerial == CallsStart(FALSE)

SpecCallsSerial == InitCallsSerial /\ [][NextCalls]_vars

\* Callers on several threads, or a call made from within a call.
InitCalls == CallsStart(TRUE)

SpecCalls == InitCalls /\ [][NextCalls]_vars

(***************************************************************************)
(* Claims about the shared trace buffer.                                   *)
(***************************************************************************)
\* C12: with calls that do not overlap, a call starts on an empty buffer, the
\* buffer holds the events of the running call only, the Trace that
\* wrapper.trace holds after the call returns has exactly the events the
\* call appended, in order, and a Trace a caller obtained keeps the events
\* it had whatever calls follow.
C12_TracePerInvocation ==
    /\ \A t \in Threads :
          /\ frames[t].pc = "run" => lists[current_ref] = appended[frames[t].inv]
          /\ frames[t].pc = "returned" =>
                /\ trace_attr[frames[t].fn].inv = frames[t].inv
                /\ lists[trace_attr[frames[t].fn].events] = appended[frames[t].inv]
    /\ \A o \in obtained :
          /\ o.by = o.inv
          /\ lists[o.events] = o.seen
          /\ o.seen = appended[o.inv]
          /\ \A i \in 1..Len(o.seen) : o.seen[i] = Logged(o.inv, i)

\* Three calls have returned, two of them of the same wrapper, each having
\* logged events, and the Trace of each was obtained.
C12_Witness ==
    /\ ~overlapping
    /\ \E o1, o2, o3 \in obtained :
          /\ o1.inv = 1 /\ o2.inv = 2 /\ o3.inv = 3
          /\ o1.seen # <<>> /\ o2.seen # <<>> /\ o3.seen # <<>>
          /\ o1.events # o2.events
    /\ \E fn \in Wrappers : trace_attr[fn].inv = 3
    /\ \E fn \in Wrappers : trace_attr[fn].inv \in {1, 2}

\* The events of `own` that `seen` lacks.
Missing(own, seen) ==
    {i \in 1..Len(own) : \A j \in 1..Len(seen) : seen[j] # own[i]}

\* The events in `seen` that another invocation than inv appended.
Foreign(inv, seen) == {j \in 1..Len(seen) : seen[j].inv # inv}

\* C13: the buffer is one list whoever appends: it holds what every
\* invocation appended since the latest reset by any of them, no step of a
\* call waits for another call, and so the Trace exposed for an invocation
\* that overlapped another can hold the other's events or lack its own; a
\* Trace is wrong in either way only for invocations that did overlap.
C13_SharedBufferUnguarded ==
    /\ lists[current_ref] = since_reset
    /\ \A o \in obtained :
          /\ \A j \in Foreign(o.inv, o.seen) : {o.inv, o.seen[j].inv} \in overlaps
          /\ Missing(appended[o.inv], o.seen) # {} =>
                \E other \in 1..started : other # o.inv /\ {o.inv, other} \in overlaps

\* A caller obtained the Trace of its own invocation, and it holds an event
\* of another invocation and lacks one of its own.
C13_Witness ==
    /\ overlapping
    /\ \E o \in obtained :
          /\ o.by = o.inv
          /\ Foreign(o.inv, o.seen) # {}
          /\ Missing(appended[o.inv], o.seen) # {}

\* to_ir's var_exprs, nodes and raised after the first i events.
Processed(evs, i) == ProcessEvents(StartOfToIr, SubSeq(evs, 1, i), 1)

IsBinaryEvent(ev) ==
    /\ ev.op \in DOMAIN BINARY_OPS
    /\ ev.op \notin {"branch", "return", "bool"}
    /\ ~(ev.op \in {"cast", "assign"} /\ Len(ev.inputs) = 1)
    /\ Len(ev.inputs) >= 2

\* C14: a binary-operator event of the table maps its output name to
\* "(" lhs " " symbol " " rhs ")", lhs and rhs resolved with the mappings in
\* force when the event is processed, and leaves the other mappings alone;
\* the events of `return metric3 > 5` give a single Return whose text is
\* "(metric3 > 5)" and whose value is the logged result, true for
\* metric3 = 6 and false for metric3 = 1.
C14_BinaryOperatorText ==
    irpc = "done" =>
        /\ \A i \in 1..Len(events) :
              (IsBinaryEvent(events[i]) /\ ~Processed(events, i - 1).raised) =>
                  LET ev == events[i]
                      before == Processed(events, i - 1).var_exprs
                      after == Processed(events, i).var_exprs
                  IN /\ ev.output_var \in DOMAIN after
                     /\ after[ev.output_var] =
                            "(" \o Resolve(before, ev.inputs[1][1], ev.inputs[1][2])
                            \o " " \o BINARY_OPS[ev.op] \o " "
                            \o Resolve(before, ev.inputs[2][1], ev.inputs[2][2]) \o ")"
                     /\ \A n \in DOMAIN before \ {ev.output_var} : after[n] = before[n]
        /\ \A m3 \in {1, 6} :
              events = SimplestDecisionEvents(m3) =>
                  /\ ~ir_result.raised
                  /\ ir_result.root = 1
                  /\ ir_result.nodes =
                         <<ReturnNode(Expression("(metric3 > 5)", LitBool(m3 > 5)))>>

\* The trace of `return user.metric3 > 5` for metric3 = 6 was reconstructed.
C14_Witness ==
    /\ irpc = "done"
    /\ events = SimplestDecisionEvents(6)
    /\ \E i \in 1..Len(events) : events[i].op = "gt" /\ Len(events[i].inputs) = 2
    /\ ir_result.nodes[1].expression.text = "(metric3 > 5)"
    /\ ir_result.nodes[1].expression.value = LitBool(TRUE)

\* d levels of indentation, two spaces each.
RECURSIVE Indent(_)
Indent(d) == IF d = 0 THEN "" ELSE "  " \o Indent(d - 1)

\* The line the claim gives for one node.
LineOf(nd) ==
    IF nd.node = "Return" THEN "return " \o nd.expression.text
    ELSE IF nd.condition.value = LitNone THEN "if " \o nd.condition.text \o ":"
    ELSE "if " \o nd.condition.text \o " (=" \o PyStr(nd.condition.value) \o "):"

\* C15: rendering a chain gives one line per node of the chain, the node at
\* depth d indented by d levels of two spaces; a Return is "return " and its
\* text, a Conditional is "if ", its text, " (=value)" and ":", the value
\* suffix being left out exactly when the condition carries no value.
C15_RenderingOneLinePerNode ==
    (irpc = "printed" /\ ir_result.root # 0) =>
        LET chain == Tree(ir_result)
        IN /\ Len(rendered) = Len(chain)
           /\ \A p \in 1..Len(chain) :
                 rendered[p] = Indent(p - 1) \o LineOf(ir_result.nodes[chain[p]])

\* A chain of three was rendered: a condition with a value, one without,
\* then the return.
C15_Witness ==
    /\ irpc = "printed"
    /\ Len(rendered) = 3
    /\ \E p \in 1..2, q \in 1..2 :
          /\ ir_result.nodes[p].node = "Conditional"
          /\ ir_result.nodes[p].condition.value = LitNone
          /\ ir_result.nodes[q].node = "Conditional"
          /\ ir_result.nodes[q].condition.value # LitNone
    /\ ir_result.nodes[3].node = "Return"
    /\ rendered[3] = "    return " \o ir_result.nodes[3].expression.text

(***************************************************************************)
(* TraceCompiler.define_pipelines (src/tracer.py, lines 470-485) and the   *)
(* run of the pipeline it builds.  The default pipeline, add_pass_after    *)
(* and the loop that runs the passes are the host compiler's.              *)
(***************************************************************************)
\* The untyped and typed passes of the host's default pipeline, in the
\* host's order; which of them a pipeline holds depends on the flags of the
\* compilation.  IRProcessing is always there.
HostPasses ==
    <<"TranslateByteCode", "IRProcessing", "WithLifting", "RewriteSemanticConstants",
      "DeadBranchPrune", "GenericRewrites", "InlineInlinables", "DeadBranchPrune",
      "NopythonTypeInference", "NativeLowering">>

RECURSIVE Pick(_, _, _)
Pick(seq, keep, i) ==
    IF i > Len(seq) THEN <<>>
    ELSE (IF i \in keep THEN <<seq[i]>> ELSE <<>>) \o Pick(seq, keep, i + 1)

DefaultPipelines ==
    {Pick(HostPasses, keep, 1) : keep \in {k \in SUBSET (1..Len(HostPasses)) : 2 \in k}}

\* pm.add_pass_after(pass_cls, location): insert right after the first
\* occurrence of location.
FirstIndex(passes, location) ==
    CHOOSE i \in 1..Len(passes) :
        passes[i] = location /\ \A j \in 1..(i - 1) : passes[j] # location

AddPassAfter(passes, pass_cls, location) ==
    LET idx == FirstIndex(passes, location)
    IN SubSeq(passes, 1, idx) \o <<pass_cls>> \o SubSeq(passes, idx + 1, Len(passes))

\* A slip: the instrumentation is placed after the inlining pass.
AddedPassesTracingEarly ==
    << <<"InlineAllCallsPass", "IRProcessing">>,
       <<"DeadBranchPrune", "InlineAllCallsPass">>,
       <<"DiamondPruningPass", "DeadBranchPrune">>,
       <<"TracingInjectionPass", "InlineAllCallsPass">> >>

\* Lines 472-483: the four calls of add_pass_after, (pass, location).
AddedPasses ==
    << <<"InlineAllCallsPass", "IRProcessing">>,
       <<"DeadBranchPrune", "InlineAllCallsPass">>,
       <<"DiamondPruningPass", "DeadBranchPrune">>,
       <<"TracingInjectionPass", "DiamondPruningPass">> >>

RECURSIVE AddAll(_, _, _)
AddAll(passes, added, i) ==
    IF i > Len(added) THEN passes
    ELSE AddAll(AddPassAfter(passes, added[i][1], added[i][2]), added, i + 1)

\* define_pipelines, lines 471-485.
DefinePipelines ==
    /\ pm_state = "new"
    /\ pm_passes' = AddAll(pm_passes, AddedPasses, 1)
    /\ pm_state' = "finalized"
    /\ pm_next' = 1
    /\ UNCHANGED <<pm_running, pass_log, dpVars, inVars, trVars, irVars, wrVars>>

\* The pipeline runs: the next pass starts when none is running.
StartPass ==
    /\ pm_state = "finalized"
    /\ pm_running = 0
    /\ pm_next <= Len(pm_passes)
    /\ pm_running' = pm_next
    /\ pass_log' = Append(pass_log, [pass |-> pm_passes[pm_next], what |-> "start"])
    /\ UNCHANGED <<pm_passes, pm_state, pm_next, dpVars, inVars, trVars, irVars, wrVars>>

\* The running pass returns.
FinishPass ==
    /\ pm_state = "finalized"
    /\ pm_running # 0
    /\ pass_log' = Append(pass_log, [pass |-> pm_passes[pm_running], what |-> "end"])
    /\ pm_running' = 0
    /\ pm_next' = pm_next + 1
    /\ pm_state' = IF pm_next = Len(pm_passes) THEN "finished" ELSE "finalized"
    /\ UNCHANGED <<pm_passes, dpVars, inVars, trVars, irVars, wrVars>>

InitPipeline ==
    /\ DiamondIdle
    /\ InlineIdle
    /\ TraceIdle
    /\ ToIrIdle
    /\ CallsIdle
    /\ pm_passes \in DefaultPipelines
    /\ pm_state = "new"
    /\ pm_next = 0
    /\ pm_running = 0
    /\ pass_log = <<>>

NextPipeline == DefinePipelines \/ StartPass \/ FinishPass

SpecPipeline == InitPipeline /\ [][NextPipeline]_vars

\* Where in the log a pass started and ended.
LogAt(pass, what) ==
    {i \in 1..Len(pass_log) : pass_log[i] = [pass |-> pass, what |-> what]}

Before(first, second) == \A i \in first : \A j \in second : i < j

\* C16: the passes run one at a time in the order of the pipeline; forced
\* inlining has ended before diamond simplification starts and diamond
\* simplification has ended before the instrumentation starts; each of the
\* three runs once, and no pass starts while another is running.
C16_PassesInOrder ==
    /\ Cardinality(LogAt("InlineAllCallsPass", "start")) <= 1
    /\ Cardinality(LogAt("DiamondPruningPass", "start")) <= 1
    /\ Cardinality(LogAt("TracingInjectionPass", "start")) <= 1
    /\ LogAt("DiamondPruningPass", "start") # {} => LogAt("InlineAllCallsPass", "end") # {}
    /\ LogAt("TracingInjectionPass", "start") # {} => LogAt("DiamondPruningPass", "end") # {}
    /\ Before(LogAt("InlineAllCallsPass", "end"), LogAt("DiamondPruningPass", "start"))
    /\ Before(LogAt("DiamondPruningPass", "end"), LogAt("TracingInjectionPass", "start"))
    /\ \A i \in 1..Len(pass_log) :
          pass_log[i].what = (IF i % 2 = 1 THEN "start" ELSE "end")
          /\ (i % 2 = 0 => pass_log[i].pass = pass_log[i - 1].pass)
    /\ pm_state = "finished" =>
          /\ LogAt("TracingInjectionPass", "end") # {}
          /\ Len(pass_log) = 2 * Len(pm_passes)

\* A pipeline whose default passes include the host's own DeadBranchPrune has
\* run to its end.
C16_Witness ==
    /\ pm_state = "finished"
    /\ Cardinality(LogAt("DeadBranchPrune", "start")) >= 2
    /\ LogAt("TracingInjectionPass", "end") # {}
    /\ LogAt("InlineAllCallsPass", "end") # {}
    /\ LogAt("DiamondPruningPass", "end") # {}

(***************************************************************************)
(* Further claims about DiamondPruningPass.                                *)
(***************************************************************************)
\* The literal a Return-ending block returns, as the specification defines
\* it: the returned value is followed through the block's own Var-to-Var and
\* Cast assignments to a literal constant; found says whether one is reached.
RECURSIVE ChaseLiteral(_, _, _)
ChaseLiteral(body, x, visited) ==
    IF IsConst(x) THEN [found |-> TRUE, lit |-> x.value]
    ELSE IF ~IsVar(x) \/ x.name \in visited \/ ~HasLocalDef(body, x.name)
    THEN [found |-> FALSE, lit |-> LitNone]
    ELSE LET val == LocalDef(body, x.name) IN
         IF IsConst(val) THEN [found |-> TRUE, lit |-> val.value]
         ELSE IF val.e = "cast" \/ IsVar(val)
         THEN ChaseLiteral(body, IF IsVar(val) THEN val ELSE val.value,
                           visited \cup {x.name})
         ELSE [found |-> FALSE, lit |-> LitNone]

ConstantReturn(bl, label) ==
    IF label \notin DOMAIN bl \/ Len(bl[label]) = 0 \/ ~IsReturn(Last(bl[label]))
    THEN [found |-> FALSE, lit |-> LitNone]
    ELSE ChaseLiteral(bl[label], Last(bl[label]).value, {})

BranchLabels(bl) == {l \in DOMAIN bl : Len(bl[l]) > 0 /\ IsBranch(Last(bl[l]))}

\* C17: a Branch that none of the jump-target rules rewrites is rewritten to
\* Jump(trueLabel) if and only if both of its targets return a literal
\* constant and the two literals are the same literal, whatever the literal
\* is (None, 0 and False included).
C17_SameLiteralReturnCollapsed ==
    (runs >= 1 /\ ~raised) =>
        \A l \in BranchLabels(prevBlocks) :
            LET term == Last(prevBlocks[l])
                t == ConstantReturn(prevBlocks, term.truebr)
                f == ConstantReturn(prevBlocks, term.falsebr)
            IN CaseOf(prevBlocks, l) \notin {1, 2, 3} =>
                   (rules[l] = 4 <=> (t.found /\ f.found /\ t.lit = f.lit))

\* The labels of the blocks executed from label on, the predicate being pv.
RECURSIVE BlocksFrom(_, _, _, _)
BlocksFrom(bl, label, pv, fuel) ==
    IF fuel = 0 \/ label \notin DOMAIN bl \/ Len(bl[label]) = 0 THEN <<>>
    ELSE LET term == Last(bl[label]) IN
         <<label>> \o (IF IsJump(term) THEN BlocksFrom(bl, term.target, pv, fuel - 1)
                      ELSE IF IsBranch(term)
                      THEN BlocksFrom(bl, IF pv THEN term.truebr ELSE term.falsebr,
                                      pv, fuel - 1)
                      ELSE <<>>)

\* The blocks executed after the terminator of block l, those that are
\* nothing but a Jump left out.
NonEmptyAfter(bl, l, pv) ==
    SelectSeq(Tail(BlocksFrom(bl, l, pv, MaxLabel + 2)),
              LAMBDA b : GetJumpTarget(bl, b) = NoLabel)

\* C18: when the two targets are not both single jumps to one label, a
\* Branch(cond, T, F) whose true block is a single Jump to F is rewritten to
\* Jump(F), and otherwise one whose false block is a single Jump to T is
\* rewritten to Jump(T); the non-empty blocks executed after the branch are
\* the same with the Jump as with the Branch, whichever value cond has.
C18_DetourRules ==
    (runs >= 1 /\ ~raised) =>
        \A l \in BranchLabels(prevBlocks) :
            LET term == Last(prevBlocks[l])
                T == term.truebr
                F == term.falsebr
                tt == GetJumpTarget(prevBlocks, T)
                ft == GetJumpTarget(prevBlocks, F)
                to == IF tt = F THEN F ELSE T
                jumped == [prevBlocks EXCEPT ![l] = SetLast(@, Jump(to))]
            IN (~(tt # NoLabel /\ ft # NoLabel /\ tt = ft) /\ (tt = F \/ ft = T)) =>
                   /\ rules[l] = (IF tt = F THEN 2 ELSE 3)
                   /\ l \in DOMAIN blocks => Last(blocks[l]) = Jump(to)
                   /\ \A pv \in BOOLEAN :
                         NonEmptyAfter(jumped, l, pv) = NonEmptyAfter(prevBlocks, l, pv)

\* Both detour rules have fired in one run, and the branch of the first is
\* still in the CFG.
C18_Witness ==
    /\ runs >= 1 /\ ~raised
    /\ \E l \in BranchLabels(prevBlocks) :
          /\ rules[l] = 2 /\ l \in DOMAIN blocks
          /\ NonEmptyAfter(prevBlocks, l, TRUE) # <<>>
    /\ \E l \in BranchLabels(prevBlocks) : rules[l] = 3

Rewritten == {l \in DOMAIN rules : rules[l] # 0}

\* C19: the flag the pass returns is true exactly when the run rewrote at
\* least one Branch, and dead_code_elimination is called after the scan
\* exactly when it did.
C19_ChangedFlagReported ==
    (runs >= 1 /\ ~raised) =>
        /\ pass_ret = LitBool(Rewritten # {})
        /\ dce_invoked <=> Rewritten # {}

(***************************************************************************)
(* Malformed and unresolvable input to DiamondPruningPass: targets that    *)
(* are no label of the block mapping, empty blocks, a returned variable    *)
(* that the block does not define, a cycle of Var and Cast definitions.    *)
(***************************************************************************)
AbsentLabel == MaxLabel + 1

LooseTargets(l) == Targets(l) \cup {AbsentLabel}

UnresolvableReturns ==
    {<<Assign("r", Const(LitInt(0))), Return(Var("r"))>>,
     <<Return(Var("r"))>>,
     <<Assign("r", Cast(Var("c"))), Assign("c", Var("r")), Return(Var("c"))>>}

MalformedBodiesAt(l) ==
    UnresolvableReturns
    \cup {<<>>}
    \cup {<<Jump(t)>> : t \in LooseTargets(l)}
    \cup {<<Branch(PredName, tf[1], tf[2])>> :
             tf \in {p \in LooseTargets(l) \X LooseTargets(l) : p[1] # p[2]}}

RECURSIVE SeqMalformed(_)
SeqMalformed(n) ==
    IF n = 0 THEN {<<>>}
    ELSE {Append(f, b) : <<f, b>> \in SeqMalformed(n - 1) \X MalformedBodiesAt(n - 1)}

MalformedCFGs == {[l \in Labels |-> f[l + 1]] : f \in SeqMalformed(MaxLabel + 1)}

InitDiamondMalformed ==
    /\ InlineIdle
    /\ TraceIdle
    /\ ToIrIdle
    /\ CallsIdle
    /\ PipelineIdle
    /\ blocks \in MalformedCFGs
    /\ blocks0 = blocks
    /\ prevBlocks = blocks
    /\ rules = [l \in Labels |-> 0]
    /\ changed = FALSE
    /\ raised = FALSE
    /\ runs = 0
    /\ pass_ret = NoReturn
    /\ dce_invoked = FALSE

SpecDiamondMalformed == InitDiamondMalformed /\ [][NextDiamond]_vars

\* A target that neither _get_jump_target nor _get_return_const can resolve.
Unresolvable(bl, label) ==
    \/ label \notin DOMAIN bl
    \/ Len(bl[label]) = 0
    \/ IsReturn(Last(bl[label])) /\ ~ConstantReturn(bl, label).found

\* C20: the pass never raises: a Branch whose targets are absent from the
\* block mapping, empty, or return a variable that is undefined in the block
\* or defined in a cycle, is left as it is, and the run ends normally.
C20_NeverRaisesOnMalformedInput ==
    runs >= 1 =>
        /\ ~raised
        /\ \A l \in BranchLabels(prevBlocks) :
              LET term == Last(prevBlocks[l]) IN
              (Unresolvable(prevBlocks, term.truebr) /\ Unresolvable(prevBlocks, term.falsebr)) =>
                  /\ rules[l] = 0
                  /\ l \in DOMAIN blocks => blocks[l] = prevBlocks[l]

(***************************************************************************)
(* Further claims about Trace.to_ir.                                       *)
(***************************************************************************)
\* The text the claim gives for (name, val) under the mappings `mapped`.
ResolvedText(mapped, name, val) ==
    IF name \in DOMAIN mapped THEN mapped[name]
    ELSE IF name.pre \in {"$const", "const("}
    THEN (IF val.ty = "float" THEN Fixed4(val.n) ELSE PyStr(val))
    ELSE IF name.pre = "$" THEN "unknown variable"
    ELSE name.pre \o name.rest

\* The events that set a mapping: assign and cast with one input, a table
\* operator with two, bool, and every other operation.
IsMappingEvent(ev) ==
    /\ ev.op \notin {"branch", "return"}
    /\ ev.op \in {"cast", "assign"} => Len(ev.inputs) >= 1
    /\ (ev.op \in DOMAIN BINARY_OPS /\ ev.op \notin {"cast", "assign"}) => Len(ev.inputs) >= 2

\* C21: a name is resolved by a fixed precedence: its mapping if it has one;
\* else the text of the literal for a constant placeholder (four decimals
\* for a float); else "unknown variable" for any other temporary; else the
\* name itself.  An event that maps its output name again replaces the
\* mapping for the events after it and leaves what was emitted alone.
C21_ResolvePrecedence ==
    irpc = "done" =>
        \A i \in 1..Len(events) :
            ~Processed(events, i - 1).raised =>
                LET ev == events[i]
                    before == Processed(events, i - 1)
                    after == Processed(events, i)
                    first == ResolvedText(before.var_exprs, ev.inputs[1][1], ev.inputs[1][2])
                IN /\ (ev.op = "branch" /\ Len(ev.inputs) >= 1) =>
                          after.cond_text[i] = first
                   /\ (ev.op = "return" /\ Len(ev.inputs) >= 1) =>
                          after.nodes[Len(after.nodes)].expression.text = first
                   /\ (ev.op \in {"cast", "assign"} /\ Len(ev.inputs) = 1) =>
                          after.var_exprs[ev.output_var] = first
                   /\ IsBinaryEvent(ev) =>
                          after.var_exprs[ev.output_var] =
                              "(" \o first \o " " \o BINARY_OPS[ev.op] \o " "
                              \o ResolvedText(before.var_exprs, ev.inputs[2][1],
                                              ev.inputs[2][2]) \o ")"
                   /\ IsMappingEvent(ev) =>
                          /\ ev.output_var \in DOMAIN after.var_exprs
                          /\ after.nodes = before.nodes
                          /\ \A n \in DOMAIN before.var_exprs \ {ev.output_var} :
                                after.var_exprs[n] = before.var_exprs[n]
                   /\ ev.op \in {"branch", "return"} => after.var_exprs = before.var_exprs

\* A source name that an earlier cast mapped resolves to its mapping, which
\* came from a temporary that had none.
C21_Witness ==
    /\ irpc = "done" /\ ~ir_result.raised
    /\ Len(events) = 3
    /\ events[1].op = "cast" /\ events[1].output_var = EvX /\ events[1].inputs[1][1] = EvT
    /\ events[2].op = "branch" /\ events[2].inputs # <<>> /\ events[2].inputs[1][1] = EvX
    /\ ir_result.cond_text[2] = "unknown variable"
    /\ events[3].op = "return" /\ events[3].inputs = <<>>


\* The events that reach the last arm of the loop, lines 151-153.
IsOtherEvent(ev) ==
    /\ ev.op \notin {"branch", "return", "bool"}
    /\ ev.op \notin DOMAIN BINARY_OPS
    /\ ~(ev.op \in {"cast", "assign"} /\ Len(ev.inputs) = 1)

\* C22: an event of any other kind, with 0, 1 or 2 inputs, maps its output
\* name to op + "(" + resolve(first input) + ")": only the first input is
\* used (nothing stands between the parentheses when there is no input).
C22_FallbackUsesFirstInputOnly ==
    irpc = "done" =>
        \A i \in 1..Len(events) :
            LET before == Processed(events, i - 1)
                after == Processed(events, i)
                ev == events[i]
            IN (~before.raised /\ IsOtherEvent(ev) /\ Len(ev.inputs) <= 2) =>
                   /\ ev.output_var \in DOMAIN after.var_exprs
                   /\ after.var_exprs[ev.output_var] =
                          ev.op \o "("
                          \o (IF Len(ev.inputs) = 0 THEN ""
                              ELSE ResolvedText(before.var_exprs, ev.inputs[1][1],
                                                ev.inputs[1][2]))
                          \o ")"

\* The corrected statement of C22: an event of any other kind maps its output
\* name to op + "(" + the resolved texts of all its inputs, in their order
\* and separated by ", ", + ")"; subsequent events resolve the output name to
\* that text.
C22_FallbackJoinsAllInputs ==
    irpc = "done" =>
        \A i \in 1..Len(events) :
            LET before == Processed(events, i - 1)
                after == Processed(events, i)
                ev == events[i]
                arg(k) == ResolvedText(before.var_exprs, ev.inputs[k][1], ev.inputs[k][2])
            IN (~before.raised /\ IsOtherEvent(ev) /\ Len(ev.inputs) <= 2) =>
                   /\ ~after.raised
                   /\ after.nodes = before.nodes
                   /\ ev.output_var \in DOMAIN after.var_exprs
                   /\ after.var_exprs[ev.output_var] =
                          ev.op \o "("
                          \o (IF Len(ev.inputs) = 0 THEN ""
                              ELSE IF Len(ev.inputs) = 1 THEN arg(1)
                              ELSE arg(1) \o ", " \o arg(2))
                          \o ")"

C22_Witness ==
    /\ irpc = "done" /\ ~ir_result.raised
    /\ Len(events) = 3
    /\ events[1].op = "getattr" /\ Len(events[1].inputs) = 2
    /\ events[2].op = "branch" /\ events[2].inputs # <<>>
    /\ events[2].inputs[1][1] = events[1].output_var
    /\ ir_result.cond_text[2] = "getattr(x, 5)"
    /\ events[3].op = "call" /\ events[3].inputs = <<>>

(***************************************************************************)
(* Further claims about DiamondPruningPass.run_pass                        *)
(***************************************************************************)
\* Every Jump and Branch target of bl is a label of bl, and no body is empty.
TargetsPresent(bl) ==
    \A l \in DOMAIN bl : Len(bl[l]) > 0 /\ Successors(bl, l) \subseteq DOMAIN bl

\* C23: when every Jump and Branch target of the CFG the pass is given is a
\* label of the block mapping, the scan (the state before dead-code
\* elimination) does not raise, adds and removes no block, changes no
\* statement other than the final terminator of a block that ended in a
\* Branch, writes there a Jump whose target is a label of the mapping, and so
\* leaves a CFG whose targets are all present.
C23_ScanKeepsWellFormed ==
    (runs >= 1 /\ TargetsPresent(prevBlocks)) =>
        LET st == ScanBlocks(prevBlocks) IN
        /\ ~st.raised
        /\ DOMAIN st.blocks = DOMAIN prevBlocks
        /\ \A l \in DOMAIN prevBlocks :
              LET old == prevBlocks[l]
                  new == st.blocks[l]
              IN /\ Len(new) = Len(old)
                 /\ \A i \in 1..(Len(old) - 1) : new[i] = old[i]
                 /\ Last(new) # Last(old) =>
                        /\ IsBranch(Last(old))
                        /\ IsJump(Last(new))
                        /\ Last(new).target \in DOMAIN prevBlocks
                        /\ st.rules[l] # 0
                 /\ st.rules[l] # 0 => Last(new) # Last(old)
        /\ TargetsPresent(st.blocks)
        /\ rules = st.rules
        /\ blocks = (IF st.changed THEN DeadCodeElimination(st.blocks) ELSE st.blocks)

\* A run whose scan wrote a Jump to the common target of two jump-only
\* blocks into a block that keeps a statement before its terminator; the
\* dead-code elimination that followed dropped a block.
C23_Witness ==
    /\ runs = 1 /\ ~raised /\ TargetsPresent(prevBlocks)
    /\ \E l \in BranchLabels(prevBlocks) :
          LET new == ScanBlocks(prevBlocks).blocks[l] IN
          /\ rules[l] = 1
          /\ Len(new) = 2 /\ IsAssign(new[1])
          /\ Last(new).target \notin {Last(prevBlocks[l]).truebr, Last(prevBlocks[l]).falsebr}
          /\ DOMAIN blocks # DOMAIN prevBlocks

(***************************************************************************)
(* Further claims about the wrappers that trace() returns                  *)
(***************************************************************************)
\* The invocations of wrapper fn that returned normally so far.
ReturnedNormally(fn) ==
    {i \in 1..Len(outcome) : outcome[i].fn = fn /\ outcome[i].result = "returned"}

LatestOf(S) == CHOOSE i \in S : \A j \in S : j <= i

\* C24: a call in which the instrumented function raises does not update
\* wrapper.trace: with calls that do not overlap, the attribute of every
\* wrapper is absent when no call of it returned normally and otherwise is
\* the Trace of the latest call of it that did, with the events that call
\* appended; no Trace is ever that of a call that raised, although the
\* buffer was reset for that call and holds what it logged before raising.
C24_RaiseLeavesTraceAttribute ==
    /\ \A fn \in Wrappers :
          IF ReturnedNormally(fn) = {} THEN trace_attr[fn] = NoTrace
          ELSE /\ trace_attr[fn].inv = LatestOf(ReturnedNormally(fn))
               /\ lists[trace_attr[fn].events] = appended[trace_attr[fn].inv]
    /\ \A i \in 1..Len(outcome) :
          outcome[i].result = "raised" =>
              /\ \A fn \in Wrappers : trace_attr[fn].inv # i
              /\ \A o \in obtained : o.inv # i
              /\ i = started => lists[current_ref] = appended[i]

\* A call of f returned after logging, the next call of f raised after
\* logging one event of two, and f.trace is still the Trace of the first.
C24_Witness ==
    /\ ~overlapping
    /\ started = 2
    /\ outcome[1] = [fn |-> "f", result |-> "returned"]
    /\ outcome[2] = [fn |-> "f", result |-> "raised"]
    /\ trace_attr["f"].inv = 1
    /\ lists[trace_attr["f"].events] = appended[1] /\ appended[1] # <<>>
    /\ Len(appended[2]) = 1 /\ lists[current_ref] = appended[2]
    /\ \A t \in Threads : frames[t] = NoFrame

(***************************************************************************)
(* Further claims about instrumentation                                    *)
(***************************************************************************)
\* C25: the parameters marked trace-worthy have no effect on the output:
\* whichever set of parameter names the call starts with, the events
\* appended during the call, the Trace the wrapper exposes and the Decision
\* IR reconstructed from it are those of the same call with no parameter
\* marked; the set of trace-worthy names itself only keeps the marked
\* parameters and grows.
C25_TraceableSetHasNoEffect ==
    /\ tphase = "running" =>
          /\ CURRENT_TRACE = unmarked_run.trace
          /\ mach = unmarked_run.m
          /\ unmarked_run.traceable = {}
          /\ TRACEABLE_VARS \subseteq
                 ParamNames
                 \cup {CURRENT_TRACE[i].output_var : i \in 1..Len(CURRENT_TRACE)}
    /\ (tphase = "ready" /\ ncalls > 0) =>
          /\ wrapper_trace = unmarked_run.trace
          /\ unmarked_run.m.status = "returned"
          /\ ToIrResult(wrapper_trace) = ToIrResult(unmarked_run.trace)

\* A call made with the parameter marked has returned: the mark has spread
\* to names the function computed, events were logged with the parameter as
\* an input, and the Trace is exposed.
C25_Witness ==
    /\ tphase = "ready" /\ ncalls > 0
    /\ Plain("user") \in TRACEABLE_VARS
    /\ TRACEABLE_VARS \ ParamNames # {}
    /\ \E i \in 1..Len(wrapper_trace) :
          /\ wrapper_trace[i].inputs # <<>>
          /\ wrapper_trace[i].inputs[1][1] = Plain("user")
          /\ wrapper_trace[i].output_var \in TRACEABLE_VARS
    /\ ~ToIrResult(wrapper_trace).raised

====
